---- MODULE Spec2Model ----
(***************************************************************************)
(* openclaw-superpack: the superpack hook runner                           *)
(* (src/src/plugins/superpack-hooks.ts, createSuperpackHookRunner).        *)
(*                                                                         *)
(* A runner is built over a list of registrations {hookName, handler,      *)
(* priority}.  Each run* function filters the list by hook name, sorts it  *)
(* by descending priority and dispatches to the handlers under one of the  *)
(* execution models (modifying chain, accumulating, fire-and-forget,       *)
(* first-match veto).  A handler is user code: what it does when it is     *)
(* called is a nondeterministic choice over the outcomes a JavaScript      *)
(* function can have (throw, reject, return undefined/null, return an      *)
(* object with or without the expected fields).                            *)
(*                                                                         *)
(* An invocation is cut at its await points: Start runs the synchronous    *)
(* prefix of the async function, Call invokes the next handler, Settle is  *)
(* the resumption after the awaited promise has settled (and runs on to    *)
(* the function's return when that was the last handler).                  *)
(***************************************************************************)
EXTENDS Integers, Sequences, FiniteSets, TLC

\* ---------------------------------------------------------------- bounds
MaxRegs == 2          \* longest registration list
MaxPriority == 1      \* priorities are drawn from 0..MaxPriority

\* ------------------------------------------------------------ hook names
TOOLS_FILTER  == "system_prompt_tools_filter"
SKILLS_FILTER == "system_prompt_skills_filter"
FOOTER        == "system_prompt_footer"
BOOTSTRAP_BEFORE == "workspace_bootstrap_before"
BOOTSTRAP_AFTER  == "workspace_bootstrap_after"
SUBAGENT_VALIDATE == "subagent_prompt_validate"

SuperpackHookName ==
  {TOOLS_FILTER, SKILLS_FILTER, FOOTER, BOOTSTRAP_BEFORE, BOOTSTRAP_AFTER,
   SUBAGENT_VALIDATE}

\* The hooks whose handlers are awaited one after the other.
SequentialHooks ==
  {TOOLS_FILTER, SKILLS_FILTER, FOOTER, BOOTSTRAP_BEFORE, SUBAGENT_VALIDATE}

\* --------------------------------------------------- JavaScript values
\* Every value is [t |-> its type, v |-> its content as a string]; a list
\* (tools, files) is opaque to the runner and is named by its content.
\* "absent" is the value of a field the object does not have.
Undefined == [t |-> "undefined", v |-> ""]
Null      == [t |-> "null", v |-> ""]
Absent    == [t |-> "absent", v |-> ""]
Str(s)    == [t |-> "string", v |-> s]
Arr(s)    == [t |-> "array", v |-> s]
True      == [t |-> "boolean", v |-> "true"]
False     == [t |-> "boolean", v |-> "false"]

\* JavaScript truthiness (if (x) ...): undefined, null, false and "" are
\* falsy; every array, the empty one included, is truthy.
Truthy(x) ==
  CASE x.t \in {"undefined", "null", "absent"} -> FALSE
    [] x.t = "boolean" -> x.v = "true"
    [] x.t = "string" -> x.v # ""
    [] OTHER -> TRUE

\* obj.field as JavaScript reads it: a missing field reads as undefined.
Read(x) == IF x.t = "absent" THEN Undefined ELSE x

Priorities == 0..MaxPriority

HookRegistration == [hookName : SuperpackHookName, priority : Priorities]

RECURSIVE SeqsUpTo(_, _)
SeqsUpTo(S, n) ==
  IF n = 0 THEN {<<>>}
  ELSE LET shorter == SeqsUpTo(S, n - 1)
       IN shorter \cup {Append(s, x) : s \in {q \in shorter : Len(q) = n - 1}, x \in S}

\* ------------------------------------------------ sortByPriority, getHooks
\* A handler is named by the position of its registration in the list.
\* (priority ?? 0: HookRegistration.priority is a number, so the default
\* never applies to a list the type admits.)
PriorityOf(registrations, i) == registrations[i].priority

\* Faulty variant: the filter keeps every registration, whatever its hook.
FilterByNameKeepsAll(registrations, name, i) == [k \in 1..Len(registrations) |-> k]

\* registrations.filter((r) => r.hookName === name), as positions in
\* list order.
RECURSIVE FilterByName(_, _, _)
FilterByName(registrations, name, i) ==
  IF i > Len(registrations) THEN <<>>
  ELSE (IF registrations[i].hookName = name THEN <<i>> ELSE <<>>)
       \o FilterByName(registrations, name, i + 1)

\* The comparator (a, b) => b.priority - a.priority: negative when a goes
\* first.
Compare(registrations, a, b) ==
  PriorityOf(registrations, b) - PriorityOf(registrations, a)

\* Faulty variant: an unstable sort, x goes before the elements it ties with.
RECURSIVE InsertSortedUnstable(_, _, _)
InsertSortedUnstable(registrations, sorted, x) ==
  IF sorted = <<>> THEN <<x>>
  ELSE LET last == sorted[Len(sorted)]
       IN IF Compare(registrations, last, x) < 0
          THEN Append(sorted, x)
          ELSE Append(InsertSortedUnstable(registrations, SubSeq(sorted, 1, Len(sorted) - 1), x),
                      last)

\* One insertion of a stable sort: x goes after every element it does not
\* strictly precede.
RECURSIVE InsertSorted(_, _, _)
InsertSorted(registrations, sorted, x) ==
  IF sorted = <<>> THEN <<x>>
  ELSE LET last == sorted[Len(sorted)]
       IN IF Compare(registrations, last, x) <= 0
          THEN Append(sorted, x)
          ELSE Append(InsertSorted(registrations, SubSeq(sorted, 1, Len(sorted) - 1), x),
                      last)

\* Faulty variant: the list is returned as filtered, never sorted.
sortByPriorityUnsorted(registrations, hooks) == hooks

\* Faulty variant: the comparator is a.priority - b.priority (ascending).
RECURSIVE sortByPriorityAscending(_, _)
sortByPriorityAscending(registrations, hooks) ==
  IF hooks = <<>> THEN <<>>
  ELSE LET rest == sortByPriorityAscending(registrations, SubSeq(hooks, 1, Len(hooks) - 1))
           x == hooks[Len(hooks)]
           smaller == SelectSeq(rest, LAMBDA y : PriorityOf(registrations, y) <= PriorityOf(registrations, x))
           larger == SelectSeq(rest, LAMBDA y : PriorityOf(registrations, y) > PriorityOf(registrations, x))
       IN smaller \o <<x>> \o larger

\* [...hooks].sort(comparator): Array.prototype.sort is stable.
RECURSIVE sortByPriority(_, _)
sortByPriority(registrations, hooks) ==
  IF hooks = <<>> THEN <<>>
  ELSE InsertSorted(registrations,
                    sortByPriority(registrations, SubSeq(hooks, 1, Len(hooks) - 1)),
                    hooks[Len(hooks)])

getHooks(registrations, name) ==
  sortByPriority(registrations, FilterByName(registrations, name, 1))

\* Faulty variant: the caller's array itself is sorted, registrations.sort(...).
StoreSortedInPlace(registrations, name) ==
  LET order == sortByPriority(registrations, [i \in 1..Len(registrations) |-> i])
  IN  [i \in 1..Len(registrations) |-> registrations[order[i]]]

\* The caller's array once getHooks has returned: filter builds a new array
\* and sortByPriority sorts a spread copy of that, the array itself is only
\* read.
StoreAfterGetHooks(registrations, name) == registrations

\* Faulty variant: the loop reads the caller's array anew at every step.
LoopHooksLive(hooks, registrations, name) == getHooks(registrations, name)

\* The array a loop iterates: the `const hooks` its function computed when
\* it started.
LoopHooks(hooks, registrations, name) == hooks

\* Faulty variant: registrations.length > 0, whatever their hook names.
hasHooksAnyName(registrations, name) == registrations # <<>>

hasHooks(registrations, name) ==
  \E i \in 1..Len(registrations) : registrations[i].hookName = name

\* ------------------------------------------------- events and handler results
\* An event is [meta |-> its non-mutable fields, field |-> the field the hook
\* is about]: tools, skillsPrompt, currentPrompt, files, filesWritten,
\* systemPrompt.
ToolLists  == {Arr("exec,read"), Arr("")}
SkillsPrompts == {Str("<skill>foo</skill>"), Str("")}
FileLists  == {Arr("AGENTS.md,SOUL.md"), Arr("")}
Fragments  == {Str("A"), Str("B"), Str("")}
Reasons    == {Str("r1"), Str("r2")}
Metas      == {"main"}

Events(name) ==
  [meta : Metas,
   field : CASE name = TOOLS_FILTER -> ToolLists
             [] name = SKILLS_FILTER -> SkillsPrompts
             [] name = FOOTER -> {Str("base")}
             [] name = BOOTSTRAP_BEFORE -> FileLists
             [] name = BOOTSTRAP_AFTER -> {Arr("AGENTS.md")}
             [] OTHER -> {Str("prompt")}]

\* What a handler's promise fulfils with: undefined, null, a primitive
\* (a non-empty string stands for them), or an object
\* with `field` (tools / skillsPrompt / append / files / block) and `aux`
\* (skip / reason), either of which may be missing or undefined/null.
RetUndefined == [t |-> "undefined", field |-> Absent, aux |-> Absent]
RetNull      == [t |-> "null", field |-> Absent, aux |-> Absent]
RetString    == [t |-> "string", field |-> Absent, aux |-> Absent]  \* a non-empty string
Obj(f, a)    == [t |-> "object", field |-> f, aux |-> a]

Malformed == {Absent, Undefined, Null}

Returns(name) ==
  {RetUndefined, RetNull, RetString} \cup
  CASE name = TOOLS_FILTER -> {Obj(f, Absent) : f \in ToolLists \cup Malformed}
    [] name = SKILLS_FILTER -> {Obj(f, Absent) : f \in SkillsPrompts \cup Malformed}
    [] name = FOOTER -> {Obj(f, Absent) : f \in Fragments \cup Malformed}
    [] name = BOOTSTRAP_BEFORE ->
         {Obj(f, a) : f \in FileLists \cup {Absent, Undefined},
                      a \in {True, False, Absent}}
    [] name = SUBAGENT_VALIDATE ->
         {Obj(True, a) : a \in Reasons \cup {Absent}}
           \cup {Obj(f, Absent) : f \in {Str("yes"), False, Absent, Undefined}}
    [] OTHER -> {}

\* How a call ended: still pending, thrown synchronously, promise rejected,
\* promise fulfilled with `val`.
Outcome(kind, val) == [kind |-> kind, val |-> val]
Pending   == Outcome("pending", RetUndefined)
Thrown    == Outcome("throw", RetUndefined)
Rejected  == Outcome("reject", RetUndefined)
Fulfilled(val) == Outcome("fulfil", val)

Settlements(name) == {Rejected} \cup {Fulfilled(val) : val \in Returns(name)}

\* `result` as the catch-free path of the loop body sees it: the awaited
\* value when the call fulfilled, nothing otherwise.
IsObject(val) == val.t = "object"

\* ------------------------------------------------------- the folds
\* Faulty variant: current = result?.tools, without the test.
ToolsFilterFoldAssign(current, val) ==
  IF IsObject(val) THEN Read(val.field) ELSE Undefined

\* if (result?.tools) current = result.tools
ToolsFilterFold(current, val) ==
  IF IsObject(val) /\ Truthy(Read(val.field)) THEN Read(val.field) ELSE current

\* Faulty variant: if (result?.skillsPrompt), which drops an empty prompt.
SkillsFilterFoldTruthy(current, val) ==
  IF IsObject(val) /\ Truthy(Read(val.field)) THEN Read(val.field) ELSE current

\* if (result && "skillsPrompt" in result) current = result.skillsPrompt
SkillsFilterFold(current, val) ==
  IF IsObject(val) /\ val.field.t # "absent" THEN Read(val.field) ELSE current

\* Faulty variant: if (result) parts.push(result.append), empty fragments too.
FooterFoldPushAll(parts, val) ==
  IF IsObject(val) /\ val.field.t = "string" THEN Append(parts, val.field.v) ELSE parts

\* if (result?.append) parts.push(result.append)
FooterFold(parts, val) ==
  IF IsObject(val) /\ Truthy(Read(val.field)) THEN Append(parts, val.field.v) ELSE parts

\* if (result) { if (result.files) currentFiles = result.files; ... }
BootstrapFilesFold(currentFiles, val) ==
  IF IsObject(val) /\ Truthy(Read(val.field)) THEN Read(val.field) ELSE currentFiles

\* Faulty variant: skip = result.skip, the last handler's word.
BootstrapSkipFoldAssign(skip, val) ==
  IF IsObject(val) THEN Truthy(Read(val.aux)) ELSE skip

\* if (result) { ...; if (result.skip) skip = true }
BootstrapSkipFold(skip, val) ==
  IF IsObject(val) /\ Truthy(Read(val.aux)) THEN TRUE ELSE skip

\* Faulty variant: if (result?.block === true).
ValidateBlocksStrict(val) == IsObject(val) /\ val.field = True

\* if (result?.block) return {block: true, reason: result.reason}
ValidateBlocks(val) == IsObject(val) /\ Truthy(Read(val.field))

\* The `in` operator throws a TypeError when its right operand is a
\* primitive: "skillsPrompt" in result, reached when result is truthy.
FoldThrows(name, val) == name = SKILLS_FILTER /\ val.t = "string"

\* Faulty variant: the validate loop lost its try/catch.
InTryButValidate(name) == name \in SuperpackHookName \ {SUBAGENT_VALIDATE}

\* Faulty variant: the handler inside hooks.map is not wrapped in a try.
InTryButAfter(name) == name # BOOTSTRAP_AFTER

\* Every handler call sits in a try block whose catch swallows the error.
InTry(name) == name \in SuperpackHookName

\* Faulty variant: workspace_bootstrap_before returns as soon as a handler skips.
StopsLoopOnSkip(name, val) ==
  \/ name = SUBAGENT_VALIDATE /\ IsObject(val) /\ Truthy(Read(val.field))
  \/ name = BOOTSTRAP_BEFORE /\ IsObject(val) /\ Truthy(Read(val.aux))

\* The one return inside a loop: subagent_prompt_validate, on a block.
StopsLoop(name, val) == name = SUBAGENT_VALIDATE /\ ValidateBlocks(val)

\* parts.join("\n")
RECURSIVE Join(_)
Join(parts) ==
  IF parts = <<>> THEN ""
  ELSE IF Len(parts) = 1 THEN parts[1]
  ELSE Join(SubSeq(parts, 1, Len(parts) - 1)) \o "\n" \o parts[Len(parts)]

\* ------------------------------------------------------------- state
VARIABLES
  registrations, \* the list given to createSuperpackHookRunner
  pc,            \* "idle", "loop" (at the head of the for loop), "await", "done", "rejected",
                 \* "answered" (hasHooks has returned)
  fn,            \* the hook name of the run* function that was called, or "hasHooks"
  event,         \* the caller's event (for hasHooks: the name asked for, in field)
  hooks,         \* const hooks = getHooks(registrations, name)
  idx,           \* position in hooks of the handler the loop is at
  current,       \* let current / let currentFiles
  skip,          \* let skip (workspace_bootstrap_before)
  parts,         \* const parts (system_prompt_footer)
  calls,         \* every handler call so far: who, with what event, how it ended
  result,        \* what the returned promise resolved with
  constructed,   \* the content of the list when the runner was created
  steps          \* the steps ensureSandboxWorkspaceLayout has completed or begun

\* The module state of flags.ts and the process environment it reads.
VARIABLES
  activeFlags,   \* let activeFlags: Set<FlagName> | null, the cache
  configFlags,   \* let configFlags: FlagName[]
  configPreset,  \* let configPreset: PresetName | undefined
  env,           \* process.env.SUPERPACK_FLAGS and process.env.SUPERPACK_PRESET
  flagCall       \* op: the function of flags.ts called last; arg, kind, val: the
                 \* last call of flag() or activeFlags_() and how it ended

flagVars == <<activeFlags, configFlags, configPreset, env, flagCall>>

\* The build script and the upstream checkout it builds in.
VARIABLES
  upstream,      \* the upstream directory: what each of its entries holds
  buildPc,       \* "start", "configWritten", "bundling", "exited"
  watch,         \* args.includes("--watch")
  resolveCall    \* the last call of the overlay plugin's resolveId and its result

buildVars == <<upstream, buildPc, watch, resolveCall>>

\* A second invocation on the same runner: the locals of its run* call.
VARIABLES other

vars == <<registrations, pc, fn, event, hooks, idx, current, skip, parts, calls, result,
          constructed, steps, flagVars, buildVars, other>>

\* ------------------------------------------------------------ flags.ts
\* The keys of FLAGS.
ALL_FLAG_NAMES ==
  {"dump_system_prompt", "dump_system_prompt_diff", "dump_bootstrap_files",
   "dump_skills_resolution", "dump_subagent_prompt",
   "dump_tool_resolution", "dump_tool_calls", "dump_tool_results",
   "dump_sandbox_copy", "dump_template_writes",
   "dump_hook_events", "dump_hook_timing",
   "dump_llm_payload", "dump_llm_response"}

PRESETS ==
  [debug_prompts |-> {"dump_system_prompt", "dump_system_prompt_diff",
                      "dump_bootstrap_files", "dump_skills_resolution",
                      "dump_subagent_prompt"},
   debug_tools |-> {"dump_tool_resolution", "dump_tool_calls", "dump_tool_results",
                    "dump_hook_events"},
   debug_workspace |-> {"dump_bootstrap_files", "dump_sandbox_copy",
                        "dump_template_writes"},
   debug_hooks |-> {"dump_hook_events", "dump_hook_timing"},
   debug_llm |-> {"dump_llm_payload", "dump_llm_response"},
   debug_all |-> ALL_FLAG_NAMES]

\* FLAGS and PRESETS are object literals: the `in` operator also finds the
\* property names they inherit from Object.prototype.
ObjectPrototypeNames ==
  {"constructor", "toString", "valueOf", "hasOwnProperty", "isPrototypeOf",
   "propertyIsEnumerable", "toLocaleString", "__proto__"}

\* f in FLAGS
InFLAGS(f) == f \in ALL_FLAG_NAMES \cup ObjectPrototypeNames

\* preset in PRESETS
InPRESETS(p) == p \in DOMAIN PRESETS \cup ObjectPrototypeNames

\* for (const f of PRESETS[p]): the preset's own array can be iterated, an
\* inherited property (a function, or Object.prototype) cannot, and the
\* loop throws a TypeError.
Iterable(p) == p \in DOMAIN PRESETS

\* A piece of an environment string between two commas: text with spaces
\* before and after it.
Seg(lead, text, trail) == [lead |-> lead, text |-> text, trail |-> trail]

\* An environment variable: not set, or a string given by its pieces.
EnvString(segs) == [t |-> "string", v |-> segs]

\* String.prototype.trim on a piece, and on a whole string.
Trim(seg) == Seg(0, seg.text, 0)
TrimString(segs) ==
  [i \in 1..Len(segs) |->
     Seg(IF i = 1 THEN 0 ELSE segs[i].lead, segs[i].text,
         IF i = Len(segs) THEN 0 ELSE segs[i].trail)]

\* The string is "": one piece, with no character in it.
IsEmptyString(segs) ==
  Len(segs) = 1 /\ segs[1].text = "" /\ segs[1].lead = 0 /\ segs[1].trail = 0

\* A piece as a property name: the name itself only when no space
\* surrounds it.
AsName(seg) == IF seg.lead = 0 /\ seg.trail = 0 THEN seg.text ELSE "<spaced>"

\* The state of the module when it has been loaded (lines 85-87), in a
\* process that has neither variable set.
FlagsLoaded ==
  /\ activeFlags = Null
  /\ configFlags = <<>>
  /\ configPreset = Undefined
  /\ env = [SUPERPACK_FLAGS |-> Undefined, SUPERPACK_PRESET |-> Undefined]
  /\ flagCall = [op |-> "", arg |-> "", kind |-> "none", val |-> {}]  \* no call yet

Range(s) == {s[i] : i \in 1..Len(s)}

RECURSIVE SelectNames(_)
\* (flags ?? []).filter((f) => f in FLAGS)
SelectNames(flags) ==
  IF flags = <<>> THEN <<>>
  ELSE (IF InFLAGS(Head(flags)) THEN <<Head(flags)>> ELSE <<>>) \o SelectNames(Tail(flags))

\* ---------------------------------------------------------------------------
\* build.ts: the overlay build of the upstream checkout.
\* ---------------------------------------------------------------------------

\* The two directories the script works with. One is never inside the other.
UPSTREAM == "/opt/openclaw-git"
OVERLAY == "/opt/openclaw-superpack"

\* A file path: the directory it is rooted in, the segments below that root
\* (the last one is the file's base name) and the extension.
Path(root, segs, ext) == [root |-> root, segs |-> segs, ext |-> ext]

\* No path: the importer of an entry point, and resolveId's undefined.
NoPath == Path("", <<>>, "")

\* The overlaid upstream modules, in the order of the table.
OverlaidModules ==
  << <<"src", "agents", "system-prompt">>,
     <<"src", "plugins", "types">>,
     <<"src", "plugins", "hooks">>,
     <<"src", "agents", "workspace">> >>

OVERLAY_ALIASES ==
  [i \in 1..Len(OverlaidModules) |->
     [find |-> Path(UPSTREAM, OverlaidModules[i], "ts"),
      replacement |-> Path(OVERLAY, OverlaidModules[i], "ts")]]

\* Import specifiers: an absolute path, a relative one ("./x.js" has up = 0,
\* "../plugins/x.js" has up = 1), or a bare module name.
AbsId(p) == [t |-> "abs", up |-> 0, root |-> p.root, segs |-> p.segs, ext |-> p.ext]
RelId(up, segs, ext) == [t |-> "rel", up |-> up, root |-> "", segs |-> segs, ext |-> ext]
BareId(name) == [t |-> "bare", up |-> 0, root |-> "", segs |-> <<name>>, ext |-> ""]

\* id.startsWith(".")
StartsWithDot(id) == id.t = "rel"

\* path.dirname of a file path: the directory holding it.
Dirname(p) == [p EXCEPT !.segs = SubSeq(p.segs, 1, Len(p.segs) - 1), !.ext = ""]

\* path.resolve(dir, id) for a relative id: each leading ".." drops one
\* directory, the remaining segments are appended.
PathResolve(dir, id) ==
  LET kept == IF id.up >= Len(dir.segs) THEN 0 ELSE Len(dir.segs) - id.up
  IN  Path(dir.root, SubSeq(dir.segs, 1, kept) \o id.segs, id.ext)

\* abs.replace(/\.js$/, ".ts")
ReplaceJs(p) == [p EXCEPT !.ext = IF p.ext = "js" THEN "ts" ELSE p.ext]

\* path.join(UPSTREAM_DIR, path.relative(OVERLAY_DIR, importer))
UpstreamImporter(importer) == [importer EXCEPT !.root = UPSTREAM]

\* overlayPlugin.resolveId(id, importer). Step 1 walks the table: the id is a
\* find itself, or it is relative and resolves from the importer's directory to
\* a find, as written or with .js read as .ts. Step 2: a relative import from
\* an overlay file resolves against the upstream directory. Otherwise undefined.
resolveId(id, importer) ==
  LET abs == PathResolve(Dirname(importer), id)
      Hit(a) ==
        \/ id.t = "abs" /\ Path(id.root, id.segs, id.ext) = a.find
        \/ /\ importer # NoPath
           /\ StartsWithDot(id)
           /\ (abs = a.find \/ ReplaceJs(abs) = a.find)
      hits == {i \in 1..Len(OVERLAY_ALIASES) : Hit(OVERLAY_ALIASES[i])}
  IN  IF hits # {}
        THEN OVERLAY_ALIASES[CHOOSE i \in hits : \A j \in hits : i <= j].replacement
      ELSE IF importer # NoPath /\ StartsWithDot(id) /\ importer.root = OVERLAY
        THEN ReplaceJs(PathResolve(Dirname(UpstreamImporter(importer)), id))
      ELSE NoPath

\* The entries of the upstream directory the build could touch.
SUPERPACK_CONFIG == "tsdown.superpack.config.ts"
UpstreamEntries == {"src", "tsdown.config.ts", "package.json", SUPERPACK_CONFIG, "dist"}

\* A checkout: the tracked entries hold what upstream ships, the generated
\* config is not there, dist/ is missing or holds an earlier build.
Checkout(dist) ==
  [e \in UpstreamEntries |->
     IF e = "dist" THEN dist
     ELSE IF e = SUPERPACK_CONFIG THEN "absent"
     ELSE "upstream"]

NoResolveCall == [id |-> BareId(""), importer |-> NoPath, result |-> NoPath, n |-> 0]

\* The script has not been started.
BuildNotRun ==
  /\ upstream = Checkout("absent")
  /\ buildPc = "start"
  /\ watch = FALSE
  /\ resolveCall = NoResolveCall

NoEvent  == [meta |-> "", field |-> Absent]
NoResult == [field |-> Absent, aux |-> Absent]
Result(f, a) == [field |-> f, aux |-> a]

Call(h, arg, out) == [h |-> h, arg |-> arg, out |-> out]

\* The locals of a run* call that has not been made.
NotInvoked ==
  [pc |-> "idle", fn |-> "", event |-> NoEvent, hooks |-> <<>>, idx |-> 1,
   current |-> Absent, skip |-> FALSE, parts |-> <<>>, calls |-> <<>>,
   result |-> NoResult]

Init ==
  /\ registrations \in SeqsUpTo(HookRegistration, MaxRegs)
  /\ pc = "idle"
  /\ fn = ""
  /\ event = NoEvent
  /\ hooks = <<>>
  /\ idx = 1
  /\ current = Absent
  /\ skip = FALSE
  /\ parts = <<>>
  /\ calls = <<>>
  /\ result = NoResult
  /\ constructed = registrations
  /\ steps = <<>>
  /\ FlagsLoaded
  /\ BuildNotRun
  /\ other = NotInvoked

\* Faulty variant: subagent_prompt_validate fails closed, { block: true } by default.
ReturnOfFailClosed(name, cur, sk, pts) ==
  IF name = SUBAGENT_VALIDATE THEN [field |-> True, aux |-> Absent]
  ELSE IF name = FOOTER THEN [field |-> Str(Join(pts)), aux |-> Absent]
  ELSE [field |-> cur, aux |-> IF name = BOOTSTRAP_BEFORE THEN (IF sk THEN True ELSE False) ELSE Absent]

\* Faulty variant: the footer is undefined when no handler contributed.
ReturnOfNothingWhenEmpty(name, cur, sk, pts) ==
  IF name = FOOTER
  THEN [field |-> IF pts = <<>> THEN Undefined ELSE Str(Join(pts)), aux |-> Absent]
  ELSE IF name = SUBAGENT_VALIDATE THEN [field |-> False, aux |-> Absent]
  ELSE [field |-> cur, aux |-> IF name = BOOTSTRAP_BEFORE THEN (IF sk THEN True ELSE False) ELSE Absent]

\* The value each sequential run* function returns after its loop.
ReturnOf(name, cur, sk, pts) ==
  CASE name = TOOLS_FILTER -> Result(cur, Absent)          \* { tools: current }
    [] name = SKILLS_FILTER -> Result(cur, Absent)         \* { skillsPrompt: current }
    [] name = FOOTER -> Result(Str(Join(pts)), Absent)     \* { append: parts.join("\n") }
    [] name = BOOTSTRAP_BEFORE ->                          \* { files: currentFiles, skip }
         Result(cur, IF sk THEN True ELSE False)
    [] OTHER -> Result(False, Absent)                      \* { block: false }

\* Faulty variant: every handler is handed the caller's event itself.
EventViewOriginal(name, ev, cur) == ev

\* Faulty variant: every hook hands its handlers the running value in place
\* of the event's field.
EventViewAlwaysCurrent(name, ev, cur) == [ev EXCEPT !.field = cur]

\* The event a handler is called with: {...event, tools: current} in the
\* modifying hooks, the caller's event in the others.
EventView(name, ev, cur) ==
  IF name \in {TOOLS_FILTER, SKILLS_FILTER, BOOTSTRAP_BEFORE}
  THEN [ev EXCEPT !.field = cur]
  ELSE ev

\* The synchronous prefix of a sequential run* function: getHooks, the
\* locals, and the return when there is nothing to loop over.
StartSequential(name, ev) ==
  /\ pc = "idle"
  /\ fn' = name
  /\ event' = ev
  /\ hooks' = getHooks(registrations, name)
  /\ idx' = 1
  /\ current' = IF name \in {TOOLS_FILTER, SKILLS_FILTER, BOOTSTRAP_BEFORE}
                THEN ev.field ELSE Absent
  /\ skip' = FALSE
  /\ parts' = <<>>
  /\ calls' = <<>>
  /\ IF hooks' = <<>>
     THEN /\ pc' = "done"
          /\ result' = ReturnOf(name, current', FALSE, <<>>)
     ELSE /\ pc' = "loop"
          /\ result' = NoResult
  /\ registrations' = StoreAfterGetHooks(registrations, name)
  /\ UNCHANGED <<flagVars, buildVars, other, constructed, steps>>

runSystemPromptToolsFilter ==
  \E ev \in Events(TOOLS_FILTER) : StartSequential(TOOLS_FILTER, ev)

runSystemPromptSkillsFilter ==
  \E ev \in Events(SKILLS_FILTER) : StartSequential(SKILLS_FILTER, ev)

runSystemPromptFooter ==
  \E ev \in Events(FOOTER) : StartSequential(FOOTER, ev)

runWorkspaceBootstrapBefore ==
  \E ev \in Events(BOOTSTRAP_BEFORE) : StartSequential(BOOTSTRAP_BEFORE, ev)

runSubagentPromptValidate ==
  \E ev \in Events(SUBAGENT_VALIDATE) : StartSequential(SUBAGENT_VALIDATE, ev)

\* Faulty variant: after the last handler the function awaits again instead
\* of returning.
ResumeNeverReturns(out) ==
  LET fault == out.kind \in {"throw", "reject"} \/ FoldThrows(fn, out.val)
      val == out.val
      cur == CASE fault -> current
               [] fn = TOOLS_FILTER -> ToolsFilterFold(current, val)
               [] fn = SKILLS_FILTER -> SkillsFilterFold(current, val)
               [] fn = BOOTSTRAP_BEFORE -> BootstrapFilesFold(current, val)
               [] OTHER -> current
      sk == IF ~fault /\ fn = BOOTSTRAP_BEFORE THEN BootstrapSkipFold(skip, val) ELSE skip
      pts == IF ~fault /\ fn = FOOTER THEN FooterFold(parts, val) ELSE parts
  IN /\ current' = cur
     /\ skip' = sk
     /\ parts' = pts
     /\ IF ~fault /\ StopsLoop(fn, val)
        THEN /\ pc' = "done"
             /\ idx' = idx
             /\ result' = Result(True, Read(val.aux))
        ELSE IF idx = Len(hooks)
        THEN /\ pc' = "await"
             /\ idx' = idx
             /\ result' = NoResult
        ELSE /\ pc' = "loop"
             /\ idx' = idx + 1
             /\ result' = NoResult

\* Faulty variant: the first handler that fails is called once more.
ResumeRetriesOnError(out) ==
  LET fault == out.kind \in {"throw", "reject"} \/ FoldThrows(fn, out.val)
      val == out.val
      cur == CASE fault -> current
               [] fn = TOOLS_FILTER -> ToolsFilterFold(current, val)
               [] fn = SKILLS_FILTER -> SkillsFilterFold(current, val)
               [] fn = BOOTSTRAP_BEFORE -> BootstrapFilesFold(current, val)
               [] OTHER -> current
      sk == IF ~fault /\ fn = BOOTSTRAP_BEFORE THEN BootstrapSkipFold(skip, val) ELSE skip
      pts == IF ~fault /\ fn = FOOTER THEN FooterFold(parts, val) ELSE parts
  IN /\ current' = cur
     /\ skip' = sk
     /\ parts' = pts
     /\ IF ~fault /\ StopsLoop(fn, val)
        THEN /\ pc' = "done"
             /\ idx' = idx
             /\ result' = Result(True, Read(val.aux))
        ELSE IF fault /\ Len(calls') = idx
        THEN /\ pc' = "loop"
             /\ idx' = idx
             /\ result' = NoResult
        ELSE IF idx = Len(hooks)
        THEN /\ pc' = "done"
             /\ idx' = idx + 1
             /\ result' = ReturnOf(fn, cur, sk, pts)
        ELSE /\ pc' = "loop"
             /\ idx' = idx + 1
             /\ result' = NoResult

\* Faulty variant: the catch ends the loop, the function returns what it
\* has folded so far.
ResumeBreaksOnError(out) ==
  LET fault == out.kind \in {"throw", "reject"} \/ FoldThrows(fn, out.val)
      val == out.val
      cur == CASE fault -> current
               [] fn = TOOLS_FILTER -> ToolsFilterFold(current, val)
               [] fn = SKILLS_FILTER -> SkillsFilterFold(current, val)
               [] fn = BOOTSTRAP_BEFORE -> BootstrapFilesFold(current, val)
               [] OTHER -> current
      sk == IF ~fault /\ fn = BOOTSTRAP_BEFORE THEN BootstrapSkipFold(skip, val) ELSE skip
      pts == IF ~fault /\ fn = FOOTER THEN FooterFold(parts, val) ELSE parts
  IN /\ current' = cur
     /\ skip' = sk
     /\ parts' = pts
     /\ IF ~fault /\ StopsLoop(fn, val)
        THEN /\ pc' = "done"
             /\ idx' = idx
             /\ result' = Result(True, Read(val.aux))
        ELSE IF fault \/ idx = Len(hooks)
        THEN /\ pc' = "done"
             /\ idx' = idx + 1
             /\ result' = ReturnOf(fn, cur, sk, pts)
        ELSE /\ pc' = "loop"
             /\ idx' = idx + 1
             /\ result' = NoResult

\* The rest of one loop iteration once the handler's call has ended with
\* `out`: the try block after the await, or the catch; then the loop test,
\* and the function's return when the loop is over.  An error no catch
\* takes rejects the promise the run* function returned.
Resume(out) ==
  LET fault == out.kind \in {"throw", "reject"} \/ FoldThrows(fn, out.val)
      val == out.val
      cur == CASE fault -> current
               [] fn = TOOLS_FILTER -> ToolsFilterFold(current, val)
               [] fn = SKILLS_FILTER -> SkillsFilterFold(current, val)
               [] fn = BOOTSTRAP_BEFORE -> BootstrapFilesFold(current, val)
               [] OTHER -> current
      sk == IF ~fault /\ fn = BOOTSTRAP_BEFORE THEN BootstrapSkipFold(skip, val) ELSE skip
      pts == IF ~fault /\ fn = FOOTER THEN FooterFold(parts, val) ELSE parts
  IN IF fault /\ ~InTry(fn)
     THEN /\ pc' = "rejected"
          /\ result' = NoResult
          /\ UNCHANGED <<idx, current, skip, parts>>
     ELSE /\ current' = cur
          /\ skip' = sk
          /\ parts' = pts
          /\ IF ~fault /\ StopsLoop(fn, val)
             THEN /\ pc' = "done"
                  /\ idx' = idx
                  /\ result' = Result(True, Read(val.aux))
             ELSE IF idx = Len(hooks)
             THEN /\ pc' = "done"
                  /\ idx' = idx + 1
                  /\ result' = ReturnOf(fn, cur, sk, pts)
             ELSE /\ pc' = "loop"
                  /\ idx' = idx + 1
                  /\ result' = NoResult

\* Faulty variant: the handler's promise is not awaited, the loop goes on
\* at once.
CallHandlerNoAwait ==
  /\ pc = "loop"
  /\ fn \in SequentialHooks
  /\ calls' = Append(calls, Call(hooks[idx], EventView(fn, event, current), Pending))
  /\ idx' = idx + 1
  /\ pc' = IF idx = Len(hooks) THEN "await" ELSE "loop"
  /\ UNCHANGED <<current, skip, parts, result>>
  /\ UNCHANGED <<flagVars, buildVars, other, registrations, constructed, steps, fn, event, hooks>>

\* hook.handler(view) is called.  It either throws before returning (the
\* catch runs at once) or returns a promise the loop awaits.
CallHandler ==
  /\ pc = "loop"
  /\ fn \in SequentialHooks
  /\ LET view == EventView(fn, event, current)
     IN \/ /\ calls' = Append(calls, Call(hooks[idx], view, Thrown))
           /\ Resume(Thrown)
        \/ /\ calls' = Append(calls, Call(hooks[idx], view, Pending))
           /\ pc' = "await"
           /\ UNCHANGED <<idx, current, skip, parts, result>>
  /\ hooks' = LoopHooks(hooks, registrations, fn)
  /\ UNCHANGED <<flagVars, buildVars, other, registrations, constructed, steps, fn, event>>

\* Faulty variant: the await gives up on a handler that has not settled and
\* the loop goes on as after a rejection.
HandlerSettlesOrTimesOut ==
  /\ pc = "await"
  /\ fn \in SequentialHooks
  /\ \/ \E out \in Settlements(fn) :
          /\ calls' = [calls EXCEPT ![Len(calls)].out = out]
          /\ Resume(out)
     \/ /\ calls' = calls
        /\ Resume(Rejected)
  /\ UNCHANGED <<flagVars, buildVars, other, registrations, constructed, steps, fn, event, hooks>>

\* The awaited promise settles and the loop resumes.
HandlerSettles ==
  /\ pc = "await"
  /\ fn \in SequentialHooks
  /\ \E out \in Settlements(fn) :
       /\ calls' = [calls EXCEPT ![Len(calls)].out = out]
       /\ Resume(out)
  /\ hooks' = LoopHooks(hooks, registrations, fn)
  /\ UNCHANGED <<flagVars, buildVars, other, registrations, constructed, steps, fn, event>>

\* runWorkspaceBootstrapAfter: hooks.map calls every handler in turn, each
\* in its own try; those that throw at once are caught, the others are
\* awaited together by Promise.all.
runWorkspaceBootstrapAfter ==
  /\ pc = "idle"
  /\ \E ev \in Events(BOOTSTRAP_AFTER) :
     \E throwers \in SUBSET (1..Len(getHooks(registrations, BOOTSTRAP_AFTER))) :
       /\ event' = ev
       /\ hooks' = getHooks(registrations, BOOTSTRAP_AFTER)
       /\ calls' = [k \in 1..Len(hooks') |->
                      Call(hooks'[k], ev, IF k \in throwers THEN Thrown ELSE Pending)]
  /\ fn' = BOOTSTRAP_AFTER
  /\ pc' = "await"
  /\ idx' = 1
  /\ current' = Absent
  /\ skip' = FALSE
  /\ parts' = <<>>
  /\ result' = NoResult
  /\ registrations' = StoreAfterGetHooks(registrations, BOOTSTRAP_AFTER)
  /\ UNCHANGED <<flagVars, buildVars, other, constructed, steps>>

PendingCalls == {k \in 1..Len(calls) : calls[k].out.kind = "pending"}

\* Faulty variant: the handlers are awaited one after the other, a handler
\* settles only once those called before it have.
AfterHandlerSettlesInOrder ==
  /\ pc = "await"
  /\ fn = BOOTSTRAP_AFTER
  /\ \E k \in PendingCalls :
     \E out \in {Rejected, Fulfilled(RetUndefined)} :
       /\ \A j \in PendingCalls : k <= j
       /\ calls' = [calls EXCEPT ![k].out = out]
  /\ UNCHANGED <<flagVars, buildVars, other, registrations, constructed, steps, pc, fn, event, hooks, idx, current, skip, parts, result>>

\* One of the handlers Promise.all waits for settles.
AfterHandlerSettles ==
  /\ pc = "await"
  /\ fn = BOOTSTRAP_AFTER
  /\ \E k \in PendingCalls :
     \E out \in {Rejected, Fulfilled(RetUndefined)} :
       calls' = [calls EXCEPT ![k].out = out]
  /\ UNCHANGED <<flagVars, buildVars, other, registrations, constructed, steps, pc, fn, event, hooks, idx, current, skip, parts, result>>

\* The calls whose error no catch took.
Uncaught == {k \in 1..Len(calls) : calls[k].out.kind \in {"throw", "reject"} /\ ~InTry(fn)}

\* Faulty variant: the function returns without waiting for Promise.all.
AfterResolvesEarly ==
  /\ pc = "await"
  /\ fn = BOOTSTRAP_AFTER
  /\ pc' = "done"
  /\ result' = Result(Undefined, Absent)
  /\ UNCHANGED <<flagVars, buildVars, other, registrations, constructed, steps, fn, event, hooks, idx, current, skip, parts, calls>>

\* Promise.all resolves once every element has (it rejects as soon as one
\* does), and the function returns.
AfterResolves ==
  /\ pc = "await"
  /\ fn = BOOTSTRAP_AFTER
  /\ PendingCalls = {} \/ Uncaught # {}
  /\ pc' = IF Uncaught # {} THEN "rejected" ELSE "done"
  /\ result' = IF Uncaught # {} THEN NoResult ELSE Result(Undefined, Absent)
  /\ UNCHANGED <<flagVars, buildVars, other, registrations, constructed, steps, fn, event, hooks, idx, current, skip, parts, calls>>

\* runner.hasHooks(name) is called: it answers at once, from the list as
\* it is at the call.
hasHooksCalled ==
  /\ pc = "idle"
  /\ \E name \in SuperpackHookName :
       /\ event' = [meta |-> "", field |-> Str(name)]
       /\ result' = Result(IF hasHooks(registrations, name) THEN True ELSE False, Absent)
  /\ fn' = "hasHooks"
  /\ pc' = "answered"
  /\ UNCHANGED <<flagVars, buildVars, other, registrations, constructed, steps, hooks, idx, current, skip, parts, calls>>

Next ==
  \/ hasHooksCalled
  \/ runSystemPromptToolsFilter
  \/ runSystemPromptSkillsFilter
  \/ runSystemPromptFooter
  \/ runWorkspaceBootstrapBefore
  \/ runWorkspaceBootstrapAfter
  \/ runSubagentPromptValidate
  \/ CallHandler
  \/ HandlerSettles
  \/ AfterHandlerSettles
  \/ AfterResolves

Spec == Init /\ [][Next]_vars

\* ---------------------------------------------------------------------------
\* Two invocations on one runner. The first is the one above; the second
\* runs the same run* functions with locals of its own, its steps taken in
\* any order with the first one's.
\* ---------------------------------------------------------------------------

\* Faulty variant: the running value is kept in the runner, one for all
\* invocations.
RunningValueShared(own, runners) == IF pc \in {"loop", "await"} THEN runners ELSE own

\* `current` as a loop reads it: the `let` of its own call of the function.
RunningValue(own, runners) == own

\* The synchronous prefix of the second invocation's run* function.
OtherStarts ==
  /\ other.pc = "idle"
  /\ \E name \in SequentialHooks : \E ev \in Events(name) :
       LET hs == getHooks(registrations, name)
           cur == IF name \in {TOOLS_FILTER, SKILLS_FILTER, BOOTSTRAP_BEFORE}
                  THEN ev.field ELSE Absent
       IN other' = [pc |-> IF hs = <<>> THEN "done" ELSE "loop",
                    fn |-> name, event |-> ev, hooks |-> hs, idx |-> 1,
                    current |-> cur, skip |-> FALSE, parts |-> <<>>, calls |-> <<>>,
                    result |-> IF hs = <<>> THEN ReturnOf(name, cur, FALSE, <<>>)
                               ELSE NoResult]
  /\ registrations' = StoreAfterGetHooks(registrations, other'.fn)
  /\ UNCHANGED <<flagVars, buildVars, constructed, steps, pc, fn, event, hooks, idx,
                 current, skip, parts, calls, result>>

\* The locals of the second invocation once its handler's call has ended
\* with `out`: the rest of the loop iteration, as in Resume.
OtherResumed(st, out) ==
  LET fault == out.kind \in {"throw", "reject"} \/ FoldThrows(st.fn, out.val)
      val == out.val
      mine == RunningValue(st.current, current)
      cur == CASE fault -> mine
               [] st.fn = TOOLS_FILTER -> ToolsFilterFold(mine, val)
               [] st.fn = SKILLS_FILTER -> SkillsFilterFold(mine, val)
               [] st.fn = BOOTSTRAP_BEFORE -> BootstrapFilesFold(mine, val)
               [] OTHER -> mine
      sk == IF ~fault /\ st.fn = BOOTSTRAP_BEFORE
            THEN BootstrapSkipFold(st.skip, val) ELSE st.skip
      pts == IF ~fault /\ st.fn = FOOTER THEN FooterFold(st.parts, val) ELSE st.parts
  IN IF fault /\ ~InTry(st.fn)
     THEN [st EXCEPT !.pc = "rejected"]
     ELSE IF ~fault /\ StopsLoop(st.fn, val)
     THEN [st EXCEPT !.current = cur, !.skip = sk, !.parts = pts, !.pc = "done",
                     !.result = Result(True, Read(val.aux))]
     ELSE IF st.idx = Len(st.hooks)
     THEN [st EXCEPT !.current = cur, !.skip = sk, !.parts = pts, !.pc = "done",
                     !.idx = st.idx + 1, !.result = ReturnOf(st.fn, cur, sk, pts)]
     ELSE [st EXCEPT !.current = cur, !.skip = sk, !.parts = pts, !.pc = "loop",
                     !.idx = st.idx + 1]

\* The second invocation calls its next handler, which throws at once or
\* returns a promise.
OtherCallHandler ==
  /\ other.pc = "loop"
  /\ LET view == EventView(other.fn, other.event, RunningValue(other.current, current))
         called(out) == [other EXCEPT !.calls = Append(other.calls,
                                                       Call(other.hooks[other.idx], view, out))]
     IN \/ other' = OtherResumed(called(Thrown), Thrown)
        \/ other' = [called(Pending) EXCEPT !.pc = "await"]
  /\ UNCHANGED <<flagVars, buildVars, registrations, constructed, steps, pc, fn, event,
                 hooks, idx, current, skip, parts, calls, result>>

\* The promise the second invocation awaits settles.
OtherHandlerSettles ==
  /\ other.pc = "await"
  /\ \E out \in Settlements(other.fn) :
       other' = OtherResumed([other EXCEPT !.calls[Len(other.calls)].out = out], out)
  /\ UNCHANGED <<flagVars, buildVars, registrations, constructed, steps, pc, fn, event,
                 hooks, idx, current, skip, parts, calls, result>>

\* Two invocations over one runner, on lists with two handlers each.
InitTwo ==
  /\ registrations \in
       { << [hookName |-> TOOLS_FILTER, priority |-> 0],
            [hookName |-> TOOLS_FILTER, priority |-> 1] >>,
         << [hookName |-> BOOTSTRAP_BEFORE, priority |-> 1],
            [hookName |-> SUBAGENT_VALIDATE, priority |-> 0] >>,
         << [hookName |-> FOOTER, priority |-> 0],
            [hookName |-> BOOTSTRAP_AFTER, priority |-> 0] >> }
  /\ pc = "idle"
  /\ fn = ""
  /\ event = NoEvent
  /\ hooks = <<>>
  /\ idx = 1
  /\ current = Absent
  /\ skip = FALSE
  /\ parts = <<>>
  /\ calls = <<>>
  /\ result = NoResult
  /\ constructed = registrations
  /\ steps = <<>>
  /\ FlagsLoaded
  /\ BuildNotRun
  /\ other = NotInvoked

NextTwo ==
  \/ Next
  \/ OtherStarts
  \/ OtherCallHandler
  \/ OtherHandlerSettles

SpecTwo == InitTwo /\ [][NextTwo]_vars

\* ---------------------------------------------------------------------------
\* The runner with handlers that settle: a promise that is awaited settles
\* in the end, and the event loop runs what is ready to run.
\* ---------------------------------------------------------------------------
\* The lists of this specification hold registrations of one hook each: an
\* invocation lines up the registrations of its own hook only.
InitSettling ==
  /\ registrations \in
       UNION {SeqsUpTo([hookName : {name}, priority : Priorities], MaxRegs) :
                name \in SuperpackHookName}
  /\ pc = "idle"
  /\ fn = ""
  /\ event = NoEvent
  /\ hooks = <<>>
  /\ idx = 1
  /\ current = Absent
  /\ skip = FALSE
  /\ parts = <<>>
  /\ calls = <<>>
  /\ result = NoResult
  /\ constructed = registrations
  /\ steps = <<>>
  /\ FlagsLoaded
  /\ BuildNotRun
  /\ other = NotInvoked

SpecSettling ==
  /\ InitSettling
  /\ [][Next]_vars
  /\ WF_vars(CallHandler)
  /\ WF_vars(HandlerSettles)
  /\ WF_vars(AfterHandlerSettles)
  /\ WF_vars(AfterResolves)

\* ------------------------------------------- the caller's registration array
\* createSuperpackHookRunner keeps the caller's array itself, not a copy:
\* the closures read `registrations` at each call.  Between two calls the
\* caller can push a registration onto the array it passed, or splice one
\* out of it.
CallerPushes ==
  /\ pc = "idle"
  /\ Len(registrations) < MaxRegs
  /\ \E r \in HookRegistration : registrations' = Append(registrations, r)
  /\ UNCHANGED <<flagVars, buildVars, other, constructed, steps, pc, fn, event, hooks, idx, current, skip, parts, calls, result>>

CallerSplices ==
  /\ pc = "idle"
  /\ \E i \in 1..Len(registrations) :
       registrations' = SubSeq(registrations, 1, i - 1)
                          \o SubSeq(registrations, i + 1, Len(registrations))
  /\ UNCHANGED <<flagVars, buildVars, other, constructed, steps, pc, fn, event, hooks, idx, current, skip, parts, calls, result>>

NextCaller ==
  \/ Next
  \/ CallerPushes
  \/ CallerSplices

SpecCaller == Init /\ [][NextCaller]_vars

\* ---------------------------------------------------------------------------
\* The caller changes its array while an invocation awaits a handler.
\* ---------------------------------------------------------------------------
MaxSnapshotRegs == 3

\* What the caller registers late: handlers that would sort first.
LateRegistrations ==
  { [hookName |-> TOOLS_FILTER, priority |-> 1],
    [hookName |-> SUBAGENT_VALIDATE, priority |-> 1] }

Awaiting == fn \in SuperpackHookName /\ pc = "await"

\* registrations.push(r) while a handler is awaited.
CallerPushesInFlight ==
  /\ Awaiting
  /\ Len(registrations) < MaxSnapshotRegs
  /\ \E r \in LateRegistrations : registrations' = Append(registrations, r)
  /\ UNCHANGED <<flagVars, buildVars, other, constructed, steps, pc, fn, event, hooks, idx, current, skip, parts, calls, result>>

\* registrations.splice(i, 1) while a handler is awaited.
CallerSplicesInFlight ==
  /\ Awaiting
  /\ \E i \in 1..Len(registrations) :
       registrations' = SubSeq(registrations, 1, i - 1)
                          \o SubSeq(registrations, i + 1, Len(registrations))
  /\ UNCHANGED <<flagVars, buildVars, other, constructed, steps, pc, fn, event, hooks, idx, current, skip, parts, calls, result>>

\* A runner built on a caller's array of two registrations.
InitSnapshot ==
  /\ registrations \in
       { << [hookName |-> TOOLS_FILTER, priority |-> 0],
            [hookName |-> TOOLS_FILTER, priority |-> 0] >>,
         << [hookName |-> SUBAGENT_VALIDATE, priority |-> 0],
            [hookName |-> BOOTSTRAP_AFTER, priority |-> 0] >> }
  /\ pc = "idle"
  /\ fn = ""
  /\ event = NoEvent
  /\ hooks = <<>>
  /\ idx = 1
  /\ current = Absent
  /\ skip = FALSE
  /\ parts = <<>>
  /\ calls = <<>>
  /\ result = NoResult
  /\ constructed = registrations
  /\ steps = <<>>
  /\ FlagsLoaded
  /\ BuildNotRun
  /\ other = NotInvoked

NextSnapshot ==
  \/ Next
  \/ CallerPushesInFlight
  \/ CallerSplicesInFlight

SpecSnapshot == InitSnapshot /\ [][NextSnapshot]_vars

\* ------------------------------------------------ sandbox_workspace_ready
\* The seventh hook and its place in ensureSandboxWorkspaceLayout
\* (docs/plans/2026-02-28-sandbox-workspace-ready-*.md).
MaxSandboxRegs == 3

SANDBOX_READY == "sandbox_workspace_ready"

\* The registry of the sandbox runs holds handlers of the hook and handlers
\* of another hook.
SandboxHookNames == {SANDBOX_READY, BOOTSTRAP_BEFORE}

SandboxEvent == [meta |-> "main", field |-> Absent]

\* getHooksForName(registry, "sandbox_workspace_ready"): the handlers of
\* the hook, highest priority first.
getHooksForName(registry, name) == getHooks(registry, name)

InitSandbox ==
  /\ registrations \in
       SeqsUpTo([hookName : SandboxHookNames, priority : Priorities], MaxSandboxRegs)
  /\ pc = "idle"
  /\ fn = ""
  /\ event = NoEvent
  /\ hooks = <<>>
  /\ idx = 1
  /\ current = Absent
  /\ skip = FALSE
  /\ parts = <<>>
  /\ calls = <<>>
  /\ result = NoResult
  /\ constructed = registrations
  /\ steps = <<>>
  /\ FlagsLoaded
  /\ BuildNotRun
  /\ other = NotInvoked

LastStep == IF steps = <<>> THEN "" ELSE steps[Len(steps)]

\* await ensureSandboxWorkspace(): the bootstrap files are on disk.
ensureSandboxWorkspace ==
  /\ steps = <<>>
  /\ steps' = <<"ensureSandboxWorkspace">>
  /\ UNCHANGED <<flagVars, buildVars, other, registrations, constructed, pc, fn, event, hooks, idx, current, skip, parts, calls, result>>

\* await syncSkillsToWorkspace(): the skills are copied.
syncSkillsToWorkspace ==
  /\ LastStep = "ensureSandboxWorkspace"
  /\ steps' = Append(steps, "syncSkillsToWorkspace")
  /\ UNCHANGED <<flagVars, buildVars, other, registrations, constructed, pc, fn, event, hooks, idx, current, skip, parts, calls, result>>

\* if (hookRunner?.hasHooks("sandbox_workspace_ready")) is false: the
\* layout function goes on to its return.
NoSandboxHooks ==
  /\ LastStep = "syncSkillsToWorkspace"
  /\ ~hasHooks(registrations, SANDBOX_READY)
  /\ steps' = Append(steps, "return")
  /\ UNCHANGED <<flagVars, buildVars, other, registrations, constructed, pc, fn, event, hooks, idx, current, skip, parts, calls, result>>

\* The guard is true and hookRunner.runSandboxWorkspaceReady(event, ctx)
\* is called: its synchronous prefix, up to the head of the for loop.
runSandboxWorkspaceReady ==
  /\ LastStep = "syncSkillsToWorkspace"
  /\ hasHooks(registrations, SANDBOX_READY)
  /\ pc = "idle"
  /\ steps' = Append(steps, "runSandboxWorkspaceReady")
  /\ fn' = SANDBOX_READY
  /\ event' = SandboxEvent
  /\ hooks' = getHooksForName(registrations, SANDBOX_READY)
  /\ idx' = 1
  /\ calls' = <<>>
  /\ IF hooks' = <<>>
     THEN /\ pc' = "done"
          /\ result' = Result(Undefined, Absent)
     ELSE /\ pc' = "loop"
          /\ result' = NoResult
  /\ UNCHANGED <<flagVars, buildVars, other, registrations, constructed, current, skip, parts>>

\* Faulty variant: the loop body has no try/catch of its own.
SandboxNotInTry == FALSE

\* The catch of the loop body takes whatever the handler threw or rejected
\* with, and does not throw itself.
SandboxInTry == TRUE

\* After a handler's call has ended: the catch if it failed, then the loop
\* test, and the return of undefined when the loop is over.
SandboxResume(out) ==
  IF out.kind \in {"throw", "reject"} /\ ~SandboxInTry
  THEN /\ pc' = "rejected"
       /\ result' = NoResult
       /\ idx' = idx
  ELSE IF idx = Len(hooks)
  THEN /\ pc' = "done"
       /\ idx' = idx + 1
       /\ result' = Result(Undefined, Absent)
  ELSE /\ pc' = "loop"
       /\ idx' = idx + 1
       /\ result' = NoResult

\* Faulty variant: the handler's promise is not awaited.
SandboxCallHandlerNoAwait ==
  /\ pc = "loop"
  /\ fn = SANDBOX_READY
  /\ calls' = Append(calls, Call(hooks[idx], event, Pending))
  /\ idx' = idx + 1
  /\ pc' = IF idx = Len(hooks) THEN "done" ELSE "loop"
  /\ result' = IF idx = Len(hooks) THEN Result(Undefined, Absent) ELSE NoResult
  /\ UNCHANGED <<flagVars, buildVars, other, registrations, constructed, steps, fn, event, hooks, current, skip, parts>>

\* hook.handler(event, ctx) is called: it throws at once or returns a
\* promise the loop awaits.
SandboxCallHandler ==
  /\ pc = "loop"
  /\ fn = SANDBOX_READY
  /\ \/ /\ calls' = Append(calls, Call(hooks[idx], event, Thrown))
        /\ SandboxResume(Thrown)
     \/ /\ calls' = Append(calls, Call(hooks[idx], event, Pending))
        /\ pc' = "await"
        /\ UNCHANGED <<idx, result>>
  /\ UNCHANGED <<flagVars, buildVars, other, registrations, constructed, steps, fn, event, hooks, current, skip, parts>>

\* The awaited handler settles (what it fulfils with is not read).
SandboxHandlerSettles ==
  /\ pc = "await"
  /\ fn = SANDBOX_READY
  /\ \E out \in {Rejected, Fulfilled(RetUndefined)} :
       /\ calls' = [calls EXCEPT ![Len(calls)].out = out]
       /\ SandboxResume(out)
  /\ UNCHANGED <<flagVars, buildVars, other, registrations, constructed, steps, fn, event, hooks, current, skip, parts>>

\* Faulty variant: the layout function does not await the hook call.
HookCallOverAtOnce == TRUE

\* await hookRunner.runSandboxWorkspaceReady(...) inside try/catch: the
\* layout function resumes when the promise has resolved, or rejected.
HookCallOver == pc \in {"done", "rejected"}

\* ensureSandboxWorkspaceLayout returns once the hook call is over.
ensureSandboxWorkspaceLayout ==
  /\ LastStep = "runSandboxWorkspaceReady"
  /\ HookCallOver
  /\ steps' = Append(steps, "return")
  /\ UNCHANGED <<flagVars, buildVars, other, registrations, constructed, pc, fn, event, hooks, idx, current, skip, parts, calls, result>>

\* await ensureSandboxContainer(): Docker starts.
ensureSandboxContainer ==
  /\ LastStep = "return"
  /\ steps' = Append(steps, "ensureSandboxContainer")
  /\ UNCHANGED <<flagVars, buildVars, other, registrations, constructed, pc, fn, event, hooks, idx, current, skip, parts, calls, result>>

NextSandbox ==
  \/ ensureSandboxWorkspace
  \/ syncSkillsToWorkspace
  \/ NoSandboxHooks
  \/ runSandboxWorkspaceReady
  \/ SandboxCallHandler
  \/ SandboxHandlerSettles
  \/ ensureSandboxWorkspaceLayout
  \/ ensureSandboxContainer

SpecSandbox == InitSandbox /\ [][NextSandbox]_vars

\* ------------------------------------------------- flags.ts: resolution
\* The arguments setConfigFlags is called with: flags omitted, or a list
\* of names, some of them no flag; preset omitted, "", or a name.
ConfigFlagsArgs ==
  {Undefined, Arr(<<>>), Arr(<<"dump_tool_calls">>),
   Arr(<<"dump_hook_events", "not_a_real_flag">>),
   Arr(<<"not_a_real_flag", "dump_llm_payload">>),
   Arr(<<"constructor">>)}

ConfigPresetArgs ==
  {Undefined, Str(""), Str("debug_hooks"), Str("fake_preset"), Str("constructor")}

\* The values the two environment variables take: unset, "", names with
\* and without spaces around them, names that are no flag or no preset.
EnvFlagsValues ==
  {Undefined,
   EnvString(<<Seg(0, "", 0)>>),
   EnvString(<<Seg(0, "dump_system_prompt", 0)>>),
   EnvString(<<Seg(0, "dump_system_prompt", 0), Seg(1, "dump_tool_resolution", 0)>>),
   EnvString(<<Seg(0, "not_a_real_flag", 0), Seg(0, "dump_tool_calls", 1)>>),
   EnvString(<<Seg(0, "toString", 0)>>)}

EnvPresetValues ==
  {Undefined,
   EnvString(<<Seg(0, "debug_workspace", 0)>>),
   EnvString(<<Seg(1, "debug_hooks", 1)>>),
   EnvString(<<Seg(0, "debug_all", 0)>>),
   EnvString(<<Seg(0, "fake_preset", 0)>>),
   EnvString(<<Seg(0, "valueOf", 0)>>)}

\* The names flag() is asked about.
FlagQueries ==
  {"dump_system_prompt", "dump_tool_calls", "dump_hook_timing", "dump_sandbox_copy"}

\* new Set<FlagName>() holding S.
FlagSet(S) == [t |-> "set", v |-> S]

Returned(S) == [kind |-> "return", val |-> S]
TypeError == [kind |-> "throw", val |-> {}]

\* process.env.SUPERPACK_PRESET?.trim(), as a property name ("" when the
\* variable is not set or blank).
EnvPresetName(value) ==
  IF value.t = "undefined" THEN ""
  ELSE LET trimmed == TrimString(value.v)
       IN IF Len(trimmed) = 1 THEN AsName(trimmed[1]) ELSE "<list>"

\* process.env.SUPERPACK_FLAGS?.trim(), split at the commas, each entry
\* trimmed: the names, none when the variable is not set or blank.
EnvFlagNames(value) ==
  IF value.t = "undefined" \/ IsEmptyString(TrimString(value.v)) THEN {}
  ELSE {AsName(Trim(TrimString(value.v)[i])) : i \in 1..Len(value.v)}

\* resolve() when the cache is empty: config preset, config flags, env
\* preset, env flags, added in turn to one set.  Iterating a preset that
\* is no array throws.
resolve(cfgPreset, cfgFlags, environment) ==
  LET envPreset == EnvPresetName(environment.SUPERPACK_PRESET)
      envPresetTaken == envPreset # "" /\ InPRESETS(envPreset)
  IN IF Truthy(cfgPreset) /\ ~Iterable(cfgPreset.v) THEN TypeError
     ELSE IF envPresetTaken /\ ~Iterable(envPreset) THEN TypeError
     ELSE Returned(
            (IF Truthy(cfgPreset) THEN PRESETS[cfgPreset.v] ELSE {})
              \cup Range(cfgFlags)
              \cup (IF envPresetTaken THEN PRESETS[envPreset] ELSE {})
              \cup {f \in EnvFlagNames(environment.SUPERPACK_FLAGS) : InFLAGS(f)})

\* setConfigFlags(flags, preset)
setConfigFlags ==
  /\ \E flags \in ConfigFlagsArgs, preset \in ConfigPresetArgs :
       /\ configFlags' = SelectNames(IF flags.t = "undefined" THEN <<>> ELSE flags.v)
       /\ configPreset' = IF Truthy(preset) /\ InPRESETS(preset.v) THEN preset ELSE Undefined
  /\ activeFlags' = Null
  /\ flagCall' = [flagCall EXCEPT !.op = "setConfigFlags"]
  /\ UNCHANGED <<env, buildVars, other, registrations, constructed, steps, pc, fn, event, hooks, idx, current, skip, parts, calls, result>>

\* Faulty variant: the cache is kept.
resetFlagsKeepsCache ==
  /\ flagCall' = [flagCall EXCEPT !.op = "resetFlags"]
  /\ UNCHANGED <<activeFlags, configFlags, configPreset, env>>
  /\ UNCHANGED <<buildVars, other, registrations, constructed, steps, pc, fn, event, hooks, idx, current, skip, parts, calls, result>>

\* resetFlags()
resetFlags ==
  /\ activeFlags' = Null
  /\ flagCall' = [flagCall EXCEPT !.op = "resetFlags"]
  /\ UNCHANGED <<configFlags, configPreset, env>>
  /\ UNCHANGED <<buildVars, other, registrations, constructed, steps, pc, fn, event, hooks, idx, current, skip, parts, calls, result>>

\* The process sets or deletes one of the two environment variables.
SetEnvFlags ==
  /\ \E value \in EnvFlagsValues : env' = [env EXCEPT !.SUPERPACK_FLAGS = value]
  /\ env' # env
  /\ UNCHANGED <<activeFlags, configFlags, configPreset, flagCall>>
  /\ UNCHANGED <<buildVars, other, registrations, constructed, steps, pc, fn, event, hooks, idx, current, skip, parts, calls, result>>

SetEnvPreset ==
  /\ \E value \in EnvPresetValues : env' = [env EXCEPT !.SUPERPACK_PRESET = value]
  /\ env' # env
  /\ UNCHANGED <<activeFlags, configFlags, configPreset, flagCall>>
  /\ UNCHANGED <<buildVars, other, registrations, constructed, steps, pc, fn, event, hooks, idx, current, skip, parts, calls, result>>

\* Faulty variant: every call resolves anew, the cached set is not used.
ResolvedUncached == resolve(configPreset, configFlags, env)

\* A call of resolve() from flag() or activeFlags_(): the cached set when
\* there is one, a fresh resolution that is cached otherwise.
Resolved ==
  IF Truthy(activeFlags) THEN Returned(activeFlags.v)
  ELSE resolve(configPreset, configFlags, env)

\* flag(name): resolve().has(name)
flag ==
  /\ \E name \in FlagQueries :
       flagCall' = [op |-> "flag", arg |-> name, kind |-> Resolved.kind,
                    val |-> IF Resolved.kind = "return" THEN Resolved.val \cap {name} ELSE {}]
  /\ activeFlags' = IF Resolved.kind = "return" THEN FlagSet(Resolved.val) ELSE activeFlags
  /\ UNCHANGED <<configFlags, configPreset, env>>
  /\ UNCHANGED <<buildVars, other, registrations, constructed, steps, pc, fn, event, hooks, idx, current, skip, parts, calls, result>>

\* activeFlags_(): [...resolve()]
activeFlags_ ==
  /\ flagCall' = [op |-> "activeFlags_", arg |-> "", kind |-> Resolved.kind,
                  val |-> IF Resolved.kind = "return" THEN Resolved.val ELSE {}]
  /\ activeFlags' = IF Resolved.kind = "return" THEN FlagSet(Resolved.val) ELSE activeFlags
  /\ UNCHANGED <<configFlags, configPreset, env>>
  /\ UNCHANGED <<buildVars, other, registrations, constructed, steps, pc, fn, event, hooks, idx, current, skip, parts, calls, result>>

\* flags.ts on its own: no hook runner is created.
InitFlags ==
  /\ registrations = <<>>
  /\ pc = "idle"
  /\ fn = ""
  /\ event = NoEvent
  /\ hooks = <<>>
  /\ idx = 1
  /\ current = Absent
  /\ skip = FALSE
  /\ parts = <<>>
  /\ calls = <<>>
  /\ result = NoResult
  /\ constructed = registrations
  /\ steps = <<>>
  /\ FlagsLoaded
  /\ BuildNotRun
  /\ other = NotInvoked

NextFlags ==
  \/ setConfigFlags
  \/ resetFlags
  \/ SetEnvFlags
  \/ SetEnvPreset
  \/ flag
  \/ activeFlags_

SpecFlags == InitFlags /\ [][NextFlags]_vars


\* ---------------------------------------------------------------------------
\* The system-prompt overlay's own copy of the flag test, beside flag().
\* ---------------------------------------------------------------------------

\* superpackFlag(name): the name is an entry of SUPERPACK_FLAGS, or the
\* preset is debug_all, or it is debug_prompts and the name is one of its
\* five flags.
superpackFlagReturns(name, environment) ==
  LET preset == EnvPresetName(environment.SUPERPACK_PRESET)
  IN IF name \in EnvFlagNames(environment.SUPERPACK_FLAGS) THEN TRUE
     ELSE IF preset = "debug_all" THEN TRUE
     ELSE IF preset = "debug_prompts"
       THEN name \in {"dump_system_prompt", "dump_system_prompt_diff",
                      "dump_bootstrap_files", "dump_skills_resolution",
                      "dump_subagent_prompt"}
     ELSE FALSE

\* The overlay asks about a flag.
superpackFlag ==
  /\ \E name \in ALL_FLAG_NAMES :
       flagCall' = [op |-> "superpackFlag", arg |-> name, kind |-> "return",
                    val |-> IF superpackFlagReturns(name, env) THEN {name} ELSE {}]
  /\ UNCHANGED <<activeFlags, configFlags, configPreset, env>>
  /\ UNCHANGED <<buildVars, other, registrations, constructed, steps, pc, fn, event, hooks, idx, current, skip, parts, calls, result>>

\* A process started with some environment: no config flags, nothing cached.
\* SUPERPACK_PRESET ranges over the six presets of the README among others.
InitOverlayFlags ==
  /\ registrations = <<>>
  /\ pc = "idle"
  /\ fn = ""
  /\ event = NoEvent
  /\ hooks = <<>>
  /\ idx = 1
  /\ current = Absent
  /\ skip = FALSE
  /\ parts = <<>>
  /\ calls = <<>>
  /\ result = NoResult
  /\ constructed = registrations
  /\ steps = <<>>
  /\ activeFlags = Null
  /\ configFlags = <<>>
  /\ configPreset = Undefined
  /\ env \in [SUPERPACK_FLAGS : EnvFlagsValues,
               SUPERPACK_PRESET :
                 EnvPresetValues \cup
                 {EnvString(<<Seg(0, p, 0)>>) :
                    p \in {"debug_prompts", "debug_tools", "debug_llm", "debug_hooks"}}]
  /\ flagCall = [op |-> "", arg |-> "", kind |-> "none", val |-> {}]
  /\ BuildNotRun
  /\ other = NotInvoked

NextOverlayFlags ==
  \/ superpackFlag
  \/ flag

SpecOverlayFlags == InitOverlayFlags /\ [][NextOverlayFlags]_vars

\* ---------------------------------------------------------------------------
\* The build: generate the wrapper config, spawn tsdown on it, exit with it.
\* ---------------------------------------------------------------------------

\* Files importing and imported during a build.
UpstreamFiles ==
  {Path(UPSTREAM, OverlaidModules[i], "ts") : i \in 1..Len(OverlaidModules)}
    \cup {Path(UPSTREAM, <<"src", "plugins", "registry">>, "ts"),
          Path(UPSTREAM, <<"src", "agents", "identity">>, "ts")}

OverlayFiles ==
  {Path(OVERLAY, OverlaidModules[i], "ts") : i \in 1..Len(OverlaidModules)}

Importers == {NoPath} \cup UpstreamFiles \cup OverlayFiles

ImportIds ==
  {AbsId(p) : p \in UpstreamFiles}
    \cup {AbsId(Path(UPSTREAM, <<"src", "plugins", b>>, "js")) : b \in {"registry", "types"}}
    \cup {RelId(0, <<b>>, e) :
            b \in {"system-prompt", "types", "hooks", "workspace", "registry"},
            e \in {"ts", "js"}}
    \cup {RelId(1, <<d, b>>, e) :
            d \in {"agents", "plugins"},
            b \in {"system-prompt", "types", "identity"},
            e \in {"ts", "js"}}
    \cup {BareId("node:path")}

\* writeFileSync(path.join(UPSTREAM, "tsdown.superpack.config.ts"), tmpConfig)
writeConfig ==
  /\ buildPc = "start"
  /\ upstream' = [upstream EXCEPT ![SUPERPACK_CONFIG] = "generated"]
  /\ buildPc' = "configWritten"
  /\ UNCHANGED <<watch, resolveCall>>
  /\ UNCHANGED <<registrations, constructed, steps, pc, fn, event, hooks, idx,
                 current, skip, parts, calls, result, flagVars, other>>

\* spawn("pnpm", ["exec", "tsdown", "--config", ...], {cwd: UPSTREAM})
spawnTsdown ==
  /\ buildPc = "configWritten"
  /\ buildPc' = "bundling"
  /\ UNCHANGED <<upstream, watch, resolveCall>>
  /\ UNCHANGED <<registrations, constructed, steps, pc, fn, event, hooks, idx,
                 current, skip, parts, calls, result, flagVars, other>>

\* The bundler asks the overlay plugin to resolve one import.
resolveIdCalled ==
  /\ buildPc = "bundling"
  /\ \E id \in ImportIds, importer \in Importers :
       resolveCall' = [id |-> id, importer |-> importer,
                       result |-> resolveId(id, importer), n |-> 1]
  /\ UNCHANGED <<upstream, buildPc, watch>>
  /\ UNCHANGED <<registrations, constructed, steps, pc, fn, event, hooks, idx,
                 current, skip, parts, calls, result, flagVars, other>>

\* tsdown writes the bundle to dist/; under --watch it goes on bundling.
tsdownWritesDist ==
  /\ buildPc = "bundling"
  /\ upstream' = [upstream EXCEPT !["dist"] = "built"]
  /\ buildPc' = IF watch THEN "bundling" ELSE "bundled"
  /\ UNCHANGED <<watch, resolveCall>>
  /\ UNCHANGED <<registrations, constructed, steps, pc, fn, event, hooks, idx,
                 current, skip, parts, calls, result, flagVars, other>>

\* proc.on("exit", (code) => process.exit(code ?? 0)): tsdown ends, having
\* finished, failed or been interrupted, and the script ends with it.
tsdownExits ==
  /\ buildPc \in {"bundling", "bundled"}
  /\ buildPc' = "exited"
  /\ UNCHANGED <<upstream, watch, resolveCall>>
  /\ UNCHANGED <<registrations, constructed, steps, pc, fn, event, hooks, idx,
                 current, skip, parts, calls, result, flagVars, other>>

InitBuild ==
  /\ registrations = <<>>
  /\ pc = "idle"
  /\ fn = ""
  /\ event = NoEvent
  /\ hooks = <<>>
  /\ idx = 1
  /\ current = Absent
  /\ skip = FALSE
  /\ parts = <<>>
  /\ calls = <<>>
  /\ result = NoResult
  /\ constructed = registrations
  /\ steps = <<>>
  /\ FlagsLoaded
  /\ upstream \in {Checkout(d) : d \in {"absent", "earlier build"}}
  /\ buildPc = "start"
  /\ watch \in BOOLEAN
  /\ resolveCall = NoResolveCall
  /\ other = NotInvoked

NextBuild ==
  \/ writeConfig
  \/ spawnTsdown
  \/ resolveIdCalled
  \/ tsdownWritesDist
  \/ tsdownExits

SpecBuild == InitBuild /\ [][NextBuild]_vars

\* ======================================================= properties
\* What the properties say about a call, in their own words (none of
\* these is used by the actions).
Matching(name) == {i \in 1..Len(registrations) : registrations[i].hookName = name}
Priority(i) == registrations[i].priority
Settled(c) == c.out.kind # "pending"
Failed(c) == c.out.kind \in {"throw", "reject"}
ReturnedNothing(c) == c.out.kind = "fulfil" /\ c.out.val.t \in {"undefined", "null"}
ReturnedObject(c) == c.out.kind = "fulfil" /\ c.out.val.t = "object"
ModifyingHooks == {TOOLS_FILTER, SKILLS_FILTER, BOOTSTRAP_BEFORE}
FieldType(name) == IF name = SKILLS_FILTER THEN "string" ELSE "array"
\* The call returned a result that carries the hook's field with a value of
\* the field's type.
ReturnedField(c) == ReturnedObject(c) /\ c.out.val.field.t = FieldType(fn)

\* C1: in a sequential hook, when a handler is invoked every handler of the
\* same hook with a strictly higher priority has been invoked before it.
C1_DescendingPriority ==
  fn \in SequentialHooks =>
    \A k \in 1..Len(calls) : \A i \in Matching(fn) :
      Priority(i) > Priority(calls[k].h) => \E j \in 1..(k - 1) : calls[j].h = i

\* The later registration has the higher priority and was invoked first.
C1_Witness ==
  /\ fn \in SequentialHooks
  /\ Len(calls) = 2
  /\ calls[1].h > calls[2].h
  /\ Priority(calls[1].h) > Priority(calls[2].h)

\* C2: in a modifying hook the first handler receives the caller's value,
\* the handler after one that returned the field receives that returned
\* value, and the result is the value returned by the last handler when it
\* returned the field (the caller's value when there is no handler).
C2_ChainFold ==
  fn \in ModifyingHooks =>
    /\ Len(calls) >= 1 => calls[1].arg.field = event.field
    /\ \A k \in 1..(Len(calls) - 1) :
         ReturnedField(calls[k]) => calls[k + 1].arg.field = calls[k].out.val.field
    /\ pc = "done" =>
         /\ calls = <<>> => result.field = event.field
         /\ calls # <<>> /\ ReturnedField(calls[Len(calls)])
              => result.field = calls[Len(calls)].out.val.field

\* Two handlers each replaced the value: the second saw the first's, the
\* result is the second's.
C2_Witness ==
  /\ fn \in ModifyingHooks
  /\ pc = "done"
  /\ Len(calls) = 2
  /\ ReturnedField(calls[1]) /\ ReturnedField(calls[2])
  /\ calls[1].out.val.field # event.field
  /\ calls[2].arg.field = calls[1].out.val.field
  /\ calls[2].out.val.field # calls[1].out.val.field
  /\ result.field = calls[2].out.val.field

\* C3: in a modifying hook a handler that throws, rejects or returns
\* nothing leaves the value as it was: the next handler receives what the
\* failing one received, and so does the result when it was the last.
C3_FailureKeepsValue ==
  fn \in ModifyingHooks =>
    /\ \A k \in 1..(Len(calls) - 1) :
         Failed(calls[k]) \/ ReturnedNothing(calls[k])
           => calls[k + 1].arg.field = calls[k].arg.field
    /\ pc = "done" /\ calls # <<>>
         /\ (Failed(calls[Len(calls)]) \/ ReturnedNothing(calls[Len(calls)]))
         => result.field = calls[Len(calls)].arg.field

\* The first handler replaced the caller's value, the last one failed, and
\* the result is the first handler's value.
C3_Witness ==
  /\ fn \in ModifyingHooks
  /\ pc = "done"
  /\ Len(calls) = 2
  /\ ReturnedField(calls[1])
  /\ calls[1].out.val.field # event.field
  /\ Failed(calls[2])
  /\ result.field = calls[1].out.val.field

ReturnedBlock(c) == ReturnedObject(c) /\ Truthy(Read(c.out.val.field))
\* i comes before j in priority order: higher priority, or the same
\* priority and registered earlier.
Before(i, j) == Priority(i) > Priority(j) \/ (Priority(i) = Priority(j) /\ i < j)

\* C5: in subagent_prompt_validate, once a handler has returned a truthy
\* block the invocation has returned {block: true, reason: that handler's
\* reason} and that handler's call is the last one made.
C5_FirstBlockReturns ==
  fn = SUBAGENT_VALIDATE =>
    \A k \in 1..Len(calls) :
      ReturnedBlock(calls[k]) =>
        /\ k = Len(calls)
        /\ pc = "done"
        /\ result = Result(True, Read(calls[k].out.val.aux))

\* The first of two handlers blocked with a reason; the second, of lower
\* priority, was never invoked.
C5_Witness ==
  /\ fn = SUBAGENT_VALIDATE
  /\ Cardinality(Matching(fn)) = 2
  /\ Len(calls) = 1
  /\ ReturnedBlock(calls[1])
  /\ calls[1].out.val.aux \in Reasons
  /\ Priority(calls[1].h) > Priority(CHOOSE i \in Matching(fn) : i # calls[1].h)
  /\ result = Result(True, calls[1].out.val.aux)

\* C6: a blocking result carries the reason of the first handler, in
\* priority order, whose call returned a block: every handler before it in
\* priority order was consulted and did not block; and a result that does
\* not block does not end the evaluation: the invocation returns
\* {block: false} only after every handler has been consulted.
C6_FirstBlockerWins ==
  fn = SUBAGENT_VALIDATE /\ pc = "done" =>
    IF result.field = True
    THEN /\ calls # <<>>
         /\ ReturnedBlock(calls[Len(calls)])
         /\ result.aux = Read(calls[Len(calls)].out.val.aux)
         /\ \A i \in Matching(fn) :
              Before(i, calls[Len(calls)].h) =>
                \E j \in 1..(Len(calls) - 1) : calls[j].h = i /\ ~ReturnedBlock(calls[j])
    ELSE {calls[k].h : k \in 1..Len(calls)} = Matching(fn)

\* The higher-priority handler returned {block: false}, the lower one was
\* still consulted and blocked, and its reason is the one returned.
C6_Witness ==
  /\ fn = SUBAGENT_VALIDATE
  /\ pc = "done"
  /\ Len(calls) = 2
  /\ Priority(calls[1].h) > Priority(calls[2].h)
  /\ calls[1].out = Fulfilled(Obj(False, Absent))
  /\ ReturnedBlock(calls[2])
  /\ calls[2].out.val.aux \in Reasons
  /\ result = Result(True, calls[2].out.val.aux)

\* C7: when no handler returned a block, failures included, the result is
\* exactly {block: false}; a block is returned only when a handler
\* returned one.
C7_NoBlockerAllows ==
  fn = SUBAGENT_VALIDATE /\ pc = "done" =>
    /\ (\A k \in 1..Len(calls) : ~ReturnedBlock(calls[k])) => result = Result(False, Absent)
    /\ result.field = True => \E k \in 1..Len(calls) : ReturnedBlock(calls[k])

\* Both handlers failed, one by throwing and one by rejecting, and the
\* launch is allowed.
C7_Witness ==
  /\ fn = SUBAGENT_VALIDATE
  /\ pc = "done"
  /\ Len(calls) = 2
  /\ \E k \in 1..2 : calls[k].out.kind = "throw"
  /\ \E k \in 1..2 : calls[k].out.kind = "reject"
  /\ result = Result(False, Absent)

\* The call contributed a fragment: it returned a non-empty append string.
Contributed(c) ==
  ReturnedObject(c) /\ c.out.val.field.t = "string" /\ c.out.val.field.v # ""

\* The fragments of calls k..Len(calls), each followed by a newline when
\* another fragment comes after it.
RECURSIVE JoinedFrom(_)
JoinedFrom(k) ==
  IF k > Len(calls) THEN ""
  ELSE IF ~Contributed(calls[k]) THEN JoinedFrom(k + 1)
  ELSE IF \E j \in (k + 1)..Len(calls) : Contributed(calls[j])
  THEN calls[k].out.val.field.v \o "\n" \o JoinedFrom(k + 1)
  ELSE calls[k].out.val.field.v

\* C8: the footer's append is the non-empty fragments in call order with
\* one newline between consecutive ones, the empty string when there are
\* none; and the calls are made in priority order.
C8_FooterJoin ==
  fn = FOOTER =>
    /\ \A j, k \in 1..Len(calls) : j < k => Priority(calls[j].h) >= Priority(calls[k].h)
    /\ pc = "done" => result = Result(Str(JoinedFrom(1)), Absent)

\* Two fragments, the one of the higher priority first, joined by a newline.
C8_Witness ==
  /\ fn = FOOTER
  /\ pc = "done"
  /\ Len(calls) = 2
  /\ calls[1].h > calls[2].h
  /\ calls[1].out = Fulfilled(Obj(Str("A"), Absent))
  /\ calls[2].out = Fulfilled(Obj(Str("B"), Absent))
  /\ result.field = Str("A\nB")

\* The call returned a result whose skip field is truthy.
ReturnedSkip(c) == ReturnedObject(c) /\ Truthy(Read(c.out.val.aux))

\* C9: the skip flag is the OR of the handlers' skips: it is true exactly
\* when some handler has returned a truthy skip, and the result carries it.
C9_SkipMonotonicOr ==
  fn = BOOTSTRAP_BEFORE =>
    /\ skip <=> \E k \in 1..Len(calls) : ReturnedSkip(calls[k])
    /\ pc = "done" => result.aux = (IF skip THEN True ELSE False)

\* The first handler asked to skip, the second returned skip=false, and
\* the result still says skip.
C9_Witness ==
  /\ fn = BOOTSTRAP_BEFORE
  /\ pc = "done"
  /\ Len(calls) = 2
  /\ ReturnedSkip(calls[1])
  /\ ReturnedObject(calls[2]) /\ calls[2].out.val.aux = False
  /\ result.aux = True

\* The file list after the first k calls: the last list a handler
\* returned, the caller's when none did.
RECURSIVE FilesAfter(_)
FilesAfter(k) ==
  IF k = 0 THEN event.field
  ELSE IF ReturnedField(calls[k]) THEN calls[k].out.val.field
  ELSE FilesAfter(k - 1)

\* C10: workspace_bootstrap_before does not stop on skip: a handler invoked
\* after a skip receives the file list as it then is, the invocation returns
\* only after every handler has been invoked, and the result carries the
\* last file list returned, after the skip or before.
C10_NoShortCircuitOnSkip ==
  fn = BOOTSTRAP_BEFORE =>
    /\ \A k \in 1..Len(calls) : calls[k].arg.field = FilesAfter(k - 1)
    /\ pc = "done" =>
         /\ {calls[k].h : k \in 1..Len(calls)} = Matching(fn)
         /\ result.field = FilesAfter(Len(calls))

\* The first handler asked to skip; the second was still invoked, with the
\* caller's file list, and the list it returned is the result's.
C10_Witness ==
  /\ fn = BOOTSTRAP_BEFORE
  /\ pc = "done"
  /\ Len(calls) = 2
  /\ ReturnedSkip(calls[1])
  /\ ~ReturnedField(calls[1])
  /\ calls[2].arg.field = event.field
  /\ ReturnedField(calls[2])
  /\ calls[2].out.val.field # event.field
  /\ result = Result(calls[2].out.val.field, True)

\* C11: runWorkspaceBootstrapAfter resolves only once every handler of the
\* hook has been invoked and has settled: no invocation is resolved while
\* one of its handlers is still pending, in whatever order they finish.
C11_ResolvesAfterAllSettle ==
  fn = BOOTSTRAP_AFTER /\ pc = "done" =>
    /\ {calls[k].h : k \in 1..Len(calls)} = Matching(fn)
    /\ \A k \in 1..Len(calls) : Settled(calls[k])

\* Two handlers are awaited and the one invoked second has settled first:
\* the invocation is still waiting for the other.
C11_Witness ==
  /\ fn = BOOTSTRAP_AFTER
  /\ pc = "await"
  /\ Len(calls) = 2
  /\ calls[1].out.kind = "pending"
  /\ calls[2].out.kind = "fulfil"

\* C12: in runWorkspaceBootstrapAfter a handler that throws or rejects stops
\* nothing: every handler of the hook is invoked all the same, a handler
\* still pending can still settle, the promise can resolve as soon as none
\* is pending, and it never rejects.
C12_AfterFailureIsolated ==
  fn = BOOTSTRAP_AFTER =>
    /\ {calls[k].h : k \in 1..Len(calls)} = Matching(fn)
    /\ Len(calls) = Cardinality(Matching(fn))
    /\ pc # "rejected"
    /\ pc = "await" /\ (\E k \in 1..Len(calls) : Failed(calls[k])) =>
         IF \E k \in 1..Len(calls) : ~Settled(calls[k])
         THEN ENABLED AfterHandlerSettles /\ ~ENABLED AfterResolves
         ELSE ENABLED AfterResolves

\* The first handler threw at once and the second rejected later; the
\* invocation has resolved, with undefined.
C12_Witness ==
  /\ fn = BOOTSTRAP_AFTER
  /\ pc = "done"
  /\ Len(calls) = 2
  /\ calls[1].out.kind = "throw"
  /\ calls[2].out.kind = "reject"
  /\ result = Result(Undefined, Absent)

\* C13: in a sequential run* function a handler is invoked only once the
\* one before it has settled: at most the call made last is in progress.
C13_OneHandlerAtATime ==
  fn \in SequentialHooks =>
    /\ \A k \in 1..(Len(calls) - 1) : Settled(calls[k])
    /\ pc = "loop" => \A k \in 1..Len(calls) : Settled(calls[k])

\* The first handler's promise was awaited and fulfilled, and the second
\* handler's is now awaited.
C13_Witness ==
  /\ fn \in SequentialHooks
  /\ pc = "await"
  /\ Len(calls) = 2
  /\ calls[1].out.kind = "fulfil"
  /\ calls[2].out.kind = "pending"

\* What each run* function returns when nothing changes the caller's value.
IdentityResult ==
  CASE fn \in {TOOLS_FILTER, SKILLS_FILTER} -> [field |-> event.field, aux |-> Absent]
    [] fn = FOOTER -> [field |-> Str(""), aux |-> Absent]
    [] fn = BOOTSTRAP_BEFORE -> [field |-> event.field, aux |-> False]
    [] fn = BOOTSTRAP_AFTER -> [field |-> Undefined, aux |-> Absent]
    [] fn = SUBAGENT_VALIDATE -> [field |-> False, aux |-> Absent]

ReturnedMalformed(c) == ReturnedObject(c) /\ c.out.val.field \in Malformed

\* C15: a result whose field is missing, undefined or null counts as no
\* result: the next handler receives what the one before received, the
\* result when every handler answered so is the identity, and no result
\* carries an undefined or null tools, skillsPrompt, files or append.
C15_MalformedIsNoResult ==
  /\ fn \in ModifyingHooks =>
       \A k \in 1..(Len(calls) - 1) :
         ReturnedMalformed(calls[k]) => calls[k + 1].arg.field = calls[k].arg.field
  /\ pc = "done" /\ fn \in ModifyingHooks \cup {FOOTER} =>
       result.field.t \notin {"undefined", "null", "absent"}
  /\ pc = "done" /\ fn \in ModifyingHooks \cup {FOOTER, SUBAGENT_VALIDATE}
       /\ (\A k \in 1..Len(calls) : ReturnedMalformed(calls[k]))
       => result.field = IdentityResult.field

C17_HasHooksIffRegistered ==
  pc = "answered" =>
    /\ result.field \in {True, False}
    /\ result.field = True <=> Matching(event.field.v) # {}

\* The list holds registrations, none for the hook asked about, and the
\* answer is false.
C17_Witness ==
  /\ pc = "answered"
  /\ Len(registrations) = 2
  /\ Matching(event.field.v) = {}
  /\ result.field = False

\* The registrations of hook `name` in the list the runner was created with.
ConstructedFor(name) == {i \in 1..Len(constructed) : constructed[i].hookName = name}

\* C18: what the caller does to its array after the runner was created
\* changes nothing: a run* call dispatches to as many handlers as the list
\* held for the hook at creation, each of them a registration of that list,
\* and hasHooks answers for that list.
C18_RegistrationsFixed ==
  /\ fn \in SuperpackHookName /\ pc # "idle" =>
       /\ Len(hooks) = Cardinality(ConstructedFor(fn))
       /\ \A k \in 1..Len(hooks) :
            \E i \in ConstructedFor(fn) : constructed[i] = registrations[hooks[k]]
  /\ pc = "answered" =>
       (result.field = True <=> ConstructedFor(event.field.v) # {})

\* C19: runSandboxWorkspaceReady invokes the handlers of the hook in
\* descending priority, invokes a handler only once the one before it has
\* settled, and resolves only after every handler of the hook has been
\* invoked and the last one has settled.
C19_SandboxReadySequential ==
  fn = SANDBOX_READY =>
    /\ \A k \in 1..Len(calls) : \A i \in Matching(fn) :
         Priority(i) > Priority(calls[k].h) => \E j \in 1..(k - 1) : calls[j].h = i
    /\ \A k \in 1..(Len(calls) - 1) : Settled(calls[k])
    /\ pc = "done" =>
         /\ {calls[k].h : k \in 1..Len(calls)} = Matching(fn)
         /\ \A k \in 1..Len(calls) : Settled(calls[k])

\* Three handlers, the one registered last with the highest priority: it
\* was invoked first, each was awaited, one of them rejected, and the
\* invocation has resolved.
C19_Witness ==
  /\ fn = SANDBOX_READY
  /\ pc = "done"
  /\ Len(calls) = 3
  /\ calls[1].h = 3
  /\ Priority(calls[1].h) > Priority(calls[2].h)
  /\ calls[2].out.kind = "reject"
  /\ calls[3].out.kind = "fulfil"

StepsDone == {steps[k] : k \in 1..Len(steps)}

\* C20: a sandbox_workspace_ready handler is invoked only after workspace
\* creation and skill sync have completed, and container creation begins
\* only when every handler of the hook has been invoked and has settled.
C20_SandboxLifecycleOrder ==
  /\ fn = SANDBOX_READY =>
       /\ Len(steps) >= 3
       /\ steps[1] = "ensureSandboxWorkspace"
       /\ steps[2] = "syncSkillsToWorkspace"
       /\ steps[3] = "runSandboxWorkspaceReady"
  /\ "ensureSandboxContainer" \in StepsDone =>
       /\ {"ensureSandboxWorkspace", "syncSkillsToWorkspace"} \subseteq StepsDone
       /\ {calls[k].h : k \in 1..Len(calls)} = Matching(SANDBOX_READY)
       /\ \A k \in 1..Len(calls) : Settled(calls[k])

\* The container is being created after two handlers ran, one of which
\* threw and one of which was awaited.
C20_Witness ==
  /\ LastStep = "ensureSandboxContainer"
  /\ Len(calls) = 2
  /\ calls[1].out.kind = "throw"
  /\ calls[2].out.kind = "fulfil"

\* C21: a sandbox_workspace_ready handler that throws or rejects stops
\* neither the loop nor the lifecycle: the invocation never rejects, the
\* next handler can be invoked, the invocation resolves with every handler
\* of the hook invoked, and the layout function and then the container
\* creation can go on.
C21_SandboxFailureIsolated ==
  fn = SANDBOX_READY =>
    /\ pc # "rejected"
    /\ (\E k \in 1..Len(calls) : Failed(calls[k])) =>
         /\ pc = "loop" => Len(calls) < Len(hooks) /\ ENABLED SandboxCallHandler
         /\ pc = "await" => ENABLED SandboxHandlerSettles
         /\ pc = "done" =>
              /\ {calls[k].h : k \in 1..Len(calls)} = Matching(fn)
              /\ LastStep = "runSandboxWorkspaceReady" => ENABLED ensureSandboxWorkspaceLayout
              /\ LastStep = "return" => ENABLED ensureSandboxContainer

\* The first handler threw and the second rejected; the third was invoked
\* all the same and the container is being created.
C21_Witness ==
  /\ LastStep = "ensureSandboxContainer"
  /\ Len(calls) = 3
  /\ calls[1].out.kind = "throw"
  /\ calls[2].out.kind = "reject"
  /\ calls[3].out.kind = "fulfil"

\* The flags the four sources name now: the config preset's, the config
\* flags, the flags of the preset SUPERPACK_PRESET names, and the entries
\* of SUPERPACK_FLAGS that are flags.
KnownPreset(p) == IF p \in DOMAIN PRESETS THEN PRESETS[p] ELSE {}
EnvEntries == IF env.SUPERPACK_FLAGS.t = "undefined" THEN {}
              ELSE {env.SUPERPACK_FLAGS.v[i].text : i \in 1..Len(env.SUPERPACK_FLAGS.v)}
EnvPresetText == IF env.SUPERPACK_PRESET.t = "undefined" \/ Len(env.SUPERPACK_PRESET.v) # 1
                 THEN "" ELSE env.SUPERPACK_PRESET.v[1].text
FromConfig == KnownPreset(configPreset.v) \cup Range(configFlags)
FromEnv == KnownPreset(EnvPresetText) \cup (EnvEntries \cap ALL_FLAG_NAMES)

\* C22: a call of flag() or activeFlags_() that finds no cached set
\* returns, and the set it leaves active is exactly what config and the
\* environment name together: the environment adds to config and takes
\* nothing away.
C22_AdditiveUnion ==
  [][activeFlags.t = "null" /\ flagCall'.op \in {"flag", "activeFlags_"} =>
       /\ flagCall'.kind = "return"
       /\ activeFlags'.t = "set"
       /\ activeFlags'.v = FromConfig \cup FromEnv]_vars

\* C23: the active set holds only names defined in FLAGS, and a name that
\* is no flag or no preset, in config or in the environment, is passed
\* over: it makes no call fail and keeps no valid name out.
C23_OnlyKnownFlags ==
  /\ activeFlags.t = "set" => activeFlags.v \subseteq ALL_FLAG_NAMES
  /\ flagCall.kind # "throw"
  /\ activeFlags.t = "set" /\ flagCall.op \in {"flag", "activeFlags_"} =>
       Range(configFlags) \cap ALL_FLAG_NAMES \subseteq activeFlags.v

\* Every name a source holds now, flag or not.
SourceNames == FromConfig \cup KnownPreset(EnvPresetText) \cup EnvEntries

\* C24: resetFlags() and setConfigFlags() leave the cache empty, and the
\* call that fills an empty cache fills it from config and the environment
\* as they are then: a name that no source holds any more is not in the
\* new set, and flag() answers from the new set.
C24_CacheInvalidation ==
  [][/\ flagCall'.op \in {"resetFlags", "setConfigFlags"} => activeFlags'.t = "null"
     /\ activeFlags.t = "null" /\ activeFlags'.t = "set" =>
          /\ activeFlags'.v \subseteq SourceNames
          /\ flagCall'.op = "flag" => flagCall'.val = activeFlags'.v \cap {flagCall'.arg}]_vars

\* flag("dump_system_prompt") answered true, SUPERPACK_FLAGS was then
\* deleted and resetFlags() called: no source holds the flag and the cache
\* is empty.
C24_Witness ==
  /\ flagCall.op = "resetFlags"
  /\ flagCall.arg = "dump_system_prompt"
  /\ flagCall.val = {"dump_system_prompt"}
  /\ env.SUPERPACK_FLAGS.t = "undefined"
  /\ "dump_system_prompt" \notin SourceNames
  /\ activeFlags.t = "null"

\* ---------------------------------------------------------------------------
\* The build and the overlay plugin.
\* ---------------------------------------------------------------------------

\* The upstream module an import stands for: an absolute id names it; a
\* relative id is read from the importer's directory, an overlay importer
\* standing where the upstream module it replaces stands, with .js naming the
\* .ts source.
ImportTarget(id, importer) ==
  IF id.t = "abs" THEN Path(id.root, id.segs, id.ext)
  ELSE LET at == IF importer.root = OVERLAY
                   THEN [importer EXCEPT !.root = UPSTREAM]
                   ELSE importer
           dir == SubSeq(at.segs, 1, Len(at.segs) - 1)
           kept == IF id.up >= Len(dir) THEN 0 ELSE Len(dir) - id.up
       IN  Path(at.root, SubSeq(dir, 1, kept) \o id.segs,
                IF id.ext = "js" THEN "ts" ELSE id.ext)

Overlaid(p) == \E i \in 1..Len(OVERLAY_ALIASES) : OVERLAY_ALIASES[i].find = p

OverlayOf(p) == Path(OVERLAY, p.segs, p.ext)

ResolvedImport ==
  /\ resolveCall.n = 1
  /\ resolveCall.id.t \in {"abs", "rel"}
  /\ resolveCall.id.t = "rel" => resolveCall.importer # NoPath

\* C25: running the build creates, modifies or deletes nothing under the
\* upstream directory except the built output in dist/: every other entry
\* holds what the checkout held before the build.
C25_UpstreamUntouched ==
  \A e \in UpstreamEntries \ {"dist"} : upstream[e] = Checkout("absent")[e]

\* C26: every import whose target is an upstream file of OVERLAY_ALIASES
\* resolves to the overlay replacement, whether the id is the absolute path, a
\* relative .ts or a relative .js path, and whether the importer is an
\* upstream file or an overlay file.
C26_OverlayFullyReplaces ==
  ResolvedImport /\ Overlaid(ImportTarget(resolveCall.id, resolveCall.importer)) =>
    resolveCall.result = OverlayOf(ImportTarget(resolveCall.id, resolveCall.importer))

\* C27: in every sequential run* function a handler that throws or rejects
\* does not stop dispatch. The invocation does not reject; while handlers
\* remain the next one can be invoked; an invocation in which a handler
\* failed and none blocked has returned only after every handler of the hook
\* was invoked; and a block or a footer fragment returned after a failed
\* handler is in the result.
C27_FailureDoesNotStopDispatch ==
  fn \in SequentialHooks /\ (\E k \in 1..Len(calls) : Failed(calls[k])) =>
    /\ pc # "rejected"
    /\ pc = "loop" => Len(calls) < Len(hooks) /\ ENABLED CallHandler
    /\ pc = "done" =>
         /\ (\A k \in 1..Len(calls) : ~(fn = SUBAGENT_VALIDATE /\ ReturnedBlock(calls[k]))) =>
              {calls[k].h : k \in 1..Len(calls)} = Matching(fn)
         /\ \A k \in 1..Len(calls), j \in 1..Len(calls) :
              k < j /\ Failed(calls[k]) =>
                /\ fn = SUBAGENT_VALIDATE /\ ReturnedBlock(calls[j]) =>
                     result = Result(True, Read(calls[j].out.val.aux))
                /\ fn = FOOTER /\ Contributed(calls[j]) =>
                     /\ \E n \in 1..Len(parts) : parts[n] = calls[j].out.val.field.v
                     /\ result.field = Str(JoinedFrom(1))

\* The higher-priority validator rejected and the next one was still
\* consulted: it blocked, and the launch is blocked with its reason.
C27_Witness ==
  /\ fn = SUBAGENT_VALIDATE
  /\ pc = "done"
  /\ Len(calls) = 2
  /\ Priority(calls[1].h) > Priority(calls[2].h)
  /\ calls[1].out.kind = "reject"
  /\ ReturnedBlock(calls[2])
  /\ calls[2].out.val.aux \in Reasons
  /\ result = Result(True, calls[2].out.val.aux)

\* What an invocation has done so far.
Progress == <<pc, fn, hooks, idx, calls, current, skip, parts, result>>

\* A step of an invocation that awaits a handler is the settling of that
\* handler's call.
OnlySettlingGoesOn ==
  fn \in SequentialHooks /\ pc = "await" /\ Progress' # Progress =>
    /\ Len(calls') = Len(calls)
    /\ Settled(calls'[Len(calls)])
    /\ \A k \in 1..(Len(calls) - 1) : calls'[k] = calls[k]

\* C28: a sequential run* function that awaits a handler goes no further
\* until that handler settles: while the call is pending the invocation has
\* no result and no other handler can be invoked, and the only step the
\* invocation takes is the settling of that call; nothing times it out or
\* cancels it.
C28_HungHandlerStalls ==
  /\ [](fn \in SequentialHooks /\ pc = "await" =>
          /\ calls # <<>>
          /\ ~Settled(calls[Len(calls)])
          /\ result = NoResult
          /\ ~ENABLED CallHandler)
  /\ [][OnlySettlingGoesOn]_vars

\* The first of two footer handlers has been called and has not settled:
\* the second has not been invoked and there is no result.
C28_Witness ==
  /\ fn = FOOTER
  /\ pc = "await"
  /\ Len(hooks) = 2
  /\ Len(calls) = 1
  /\ calls[1].out.kind = "pending"
  /\ result = NoResult

\* C29: runWorkspaceBootstrapAfter starts every handler of the hook before
\* it waits for any: from the first state of the invocation each handler has
\* been called, and whichever handlers are still pending, any one of them
\* can settle next and the others stay as they are.
C29_AfterHandlersConcurrent ==
  fn = BOOTSTRAP_AFTER =>
    /\ Len(calls) = Len(hooks)
    /\ {calls[k].h : k \in 1..Len(calls)} = Matching(fn)
    /\ pc = "await" =>
         \A k \in 1..Len(calls) :
           ~Settled(calls[k]) =>
             ENABLED (/\ AfterHandlerSettles
                      /\ Settled(calls'[k])
                      /\ \A j \in 1..Len(calls) : j # k => calls'[j] = calls[j])

\* The handler of higher priority, called first, has not settled; the one
\* called after it has already rejected.
C29_Witness ==
  /\ fn = BOOTSTRAP_AFTER
  /\ pc = "await"
  /\ Len(calls) = 2
  /\ Priority(calls[1].h) > Priority(calls[2].h)
  /\ calls[1].out.kind = "pending"
  /\ calls[2].out.kind = "reject"

\* C30: every handler of system_prompt_footer is called with the event the
\* caller passed, currentPrompt included, whatever the handlers called
\* before it returned and in whatever order they were called.
C30_FooterOriginalEvent ==
  fn = FOOTER =>
    \A k \in 1..Len(calls) :
      /\ calls[k].arg = event
      /\ calls[k].arg.field = Str("base")

\* The first footer handler contributed a fragment; the second was then
\* called with the caller's event and contributed another.
C30_Witness ==
  /\ fn = FOOTER
  /\ pc = "done"
  /\ Len(calls) = 2
  /\ Contributed(calls[1])
  /\ Contributed(calls[2])
  /\ calls[2].arg = event
  /\ Len(parts) = 2

\* A step of an invocation leaves the caller's event as it is, and a call
\* made in a modifying hook is made with the event's other fields and the
\* running value as the hook's field.
ViewBuiltPerCall ==
  /\ pc # "idle" => event' = event
  /\ fn \in ModifyingHooks /\ pc = "loop" /\ Len(calls') = Len(calls) + 1 =>
       /\ calls'[Len(calls')].arg.meta = event.meta
       /\ calls'[Len(calls')].arg.field = current

\* C31: in the modifying hooks each handler receives a view whose other
\* fields equal the caller's event's and whose hook field is the running
\* value, and no step of an invocation changes the caller's event: it holds
\* after the invocation what it held before.
C31_FreshViewEventUntouched ==
  /\ [](fn \in ModifyingHooks =>
          \A k \in 1..Len(calls) : calls[k].arg.meta = event.meta)
  /\ [][ViewBuiltPerCall]_vars

\* The second handler was called with the first one's value, not the
\* caller's, and the caller's event still holds what the first was given.
C31_Witness ==
  /\ fn \in ModifyingHooks
  /\ pc = "done"
  /\ Len(calls) = 2
  /\ calls[1].arg = event
  /\ ReturnedField(calls[1])
  /\ calls[2].arg.field = calls[1].out.val.field
  /\ calls[2].arg.field # event.field
  /\ calls[2].arg.meta = event.meta

\* C32: the list the runner was created with holds, in every state of every
\* invocation and after a hasHooks call, the entries it held at creation, in
\* the same order: dispatching sorts a copy.
C32_StoreUnchanged ==
  /\ registrations = constructed
  /\ \A k \in 1..Len(hooks) : hooks[k] \in 1..Len(registrations)

\* Both handlers of a hook were invoked, the one registered second first
\* because of its priority, and the list still has them in registration
\* order.
C32_Witness ==
  /\ fn \in SuperpackHookName
  /\ pc = "done"
  /\ Len(calls) = 2
  /\ calls[1].h = 2
  /\ calls[2].h = 1
  /\ Priority(2) > Priority(1)
  /\ registrations = constructed

\* The locals of a sequential run* call made on its own after the first k of
\* the calls `cs`, each handler answering as recorded there.
RECURSIVE AloneFold(_, _, _, _)
AloneFold(name, ev, cs, k) ==
  IF k = 0
  THEN [cur |-> IF name \in ModifyingHooks THEN ev.field ELSE Absent,
        sk |-> FALSE, pts |-> <<>>]
  ELSE LET prev == AloneFold(name, ev, cs, k - 1)
           out == cs[k].out
       IN IF out.kind # "fulfil" \/ FoldThrows(name, out.val) THEN prev
          ELSE [cur |-> CASE name = TOOLS_FILTER -> ToolsFilterFold(prev.cur, out.val)
                          [] name = SKILLS_FILTER -> SkillsFilterFold(prev.cur, out.val)
                          [] name = BOOTSTRAP_BEFORE -> BootstrapFilesFold(prev.cur, out.val)
                          [] OTHER -> prev.cur,
                sk |-> IF name = BOOTSTRAP_BEFORE
                       THEN BootstrapSkipFold(prev.sk, out.val) ELSE prev.sk,
                pts |-> IF name = FOOTER THEN FooterFold(prev.pts, out.val) ELSE prev.pts]

\* What that call returns.
AloneResult(name, ev, cs) ==
  LET end == AloneFold(name, ev, cs, Len(cs))
      last == cs[Len(cs)].out
  IN IF cs # <<>> /\ last.kind = "fulfil" /\ StopsLoop(name, last.val)
     THEN Result(True, Read(last.val.aux))
     ELSE ReturnOf(name, end.cur, end.sk, end.pts)

\* The invocation with these locals went as it would have gone alone.
AsIfAlone(name, ev, cs, state, res) ==
  /\ \A k \in 1..Len(cs) :
       cs[k].arg = (IF name \in ModifyingHooks
                    THEN [ev EXCEPT !.field = AloneFold(name, ev, cs, k - 1).cur]
                    ELSE ev)
  /\ state = "done" => res = AloneResult(name, ev, cs)

\* C33: of two invocations on one runner, in whatever order their steps are
\* taken, each hands its handlers what it would hand them if it ran alone
\* and returns what it would return alone, the handlers answering the same:
\* neither sees the other's running value, fragments or skip.
C33_InvocationsIndependent ==
  /\ fn \in SequentialHooks => AsIfAlone(fn, event, calls, pc, result)
  /\ other.fn \in SequentialHooks =>
       AsIfAlone(other.fn, other.event, other.calls, other.pc, other.result)

\* Two invocations of the tools filter are both waiting for their second
\* handler, each after its first handler replaced its list, and the two
\* running lists differ.
C33_Witness ==
  /\ fn = TOOLS_FILTER /\ other.fn = TOOLS_FILTER
  /\ pc = "await" /\ other.pc = "await"
  /\ Len(calls) = 2 /\ Len(other.calls) = 2
  /\ current # event.field
  /\ other.current # other.event.field
  /\ current # other.current
  /\ calls[2].arg.field = current
  /\ other.calls[2].arg.field = other.current

\* C34: an invocation calls only handlers registered under its own hook
\* name: every call made is of a registration of that hook, and so is every
\* handler the invocation has lined up.
C34_HookNameIsolation ==
  fn \in SuperpackHookName =>
    /\ \A k \in 1..Len(calls) : registrations[calls[k].h].hookName = fn
    /\ \A k \in 1..Len(hooks) : registrations[hooks[k]].hookName = fn

\* A registration of another hook comes first in the list and has the
\* higher priority; the invocation has returned having called only its own.
C34_Witness ==
  /\ fn \in SuperpackHookName
  /\ pc = "done"
  /\ Len(registrations) = 2
  /\ registrations[1].hookName # fn
  /\ registrations[2].hookName = fn
  /\ Priority(1) > Priority(2)
  /\ Len(calls) = 1
  /\ calls[1].h = 2

\* The calls of the invocation that returned a block.
Blockers == {k \in 1..Len(calls) : ReturnedBlock(calls[k])}

\* The handlers an invocation has called.
Called == {calls[k].h : k \in 1..Len(calls)}

\* C35: no handler is called twice in an invocation. When a modifying,
\* accumulating or fire-and-forget invocation has returned, every handler
\* of the hook has been called; when subagent_prompt_validate has returned,
\* the handlers called are the first blocker and those before it in priority
\* order, or all of them when none blocked.
C35_EachHandlerOnce ==
  fn \in SuperpackHookName =>
    /\ \A j \in 1..Len(calls), k \in 1..Len(calls) : calls[j].h = calls[k].h => j = k
    /\ Called \subseteq Matching(fn)
    /\ pc = "done" /\ fn # SUBAGENT_VALIDATE => Called = Matching(fn)
    /\ pc = "done" /\ fn = SUBAGENT_VALIDATE =>
         IF Blockers = {} THEN Called = Matching(fn)
         ELSE /\ Blockers = {Len(calls)}
              /\ Called = {i \in Matching(fn) :
                             i = calls[Len(calls)].h \/ Before(i, calls[Len(calls)].h)}

\* Two validators have the same priority; the one registered first blocked
\* and the other was never called.
C35_Witness ==
  /\ fn = SUBAGENT_VALIDATE
  /\ pc = "done"
  /\ Matching(fn) = {1, 2}
  /\ Priority(1) = Priority(2)
  /\ Len(calls) = 1
  /\ calls[1].h = 1
  /\ ReturnedBlock(calls[1])

\* A run* function has been called and has not returned.
InFlight == fn \in SuperpackHookName /\ pc \in {"loop", "await"}

\* C36: when every handler that is invoked settles, an invocation that has
\* started resolves: it does not stay in its loop or at an await for ever.
C36_TerminatesWhenHandlersDo == InFlight ~> pc = "done"

\* An invocation resolved after its two handlers settled, the first by
\* rejecting some time after it was called.
C36_Witness ==
  /\ fn = SKILLS_FILTER
  /\ pc = "done"
  /\ Len(calls) = 2
  /\ calls[1].out.kind = "reject"
  /\ calls[2].out.kind = "fulfil"
  /\ result.field.t = "string"

\* A step taken while an invocation is in flight leaves its handler list as
\* it is.
HooksKept == pc \in {"loop", "await"} => hooks' = hooks

\* C37: the handlers of an invocation are those the list held for the hook
\* when the run* function started, in that order: whatever the caller
\* appends to or removes from its array while a handler is awaited, the
\* invocation's list stays as computed, only handlers of the list at the
\* start are called, and unless a validator blocks all of them are.
C37_DispatchOnSnapshot ==
  /\ [][HooksKept]_vars
  /\ [](fn \in SuperpackHookName /\ pc # "idle" =>
          /\ {hooks[k] : k \in 1..Len(hooks)} = ConstructedFor(fn)
          /\ \A k \in 1..Len(calls) : calls[k].h = hooks[k]
          /\ pc = "done" /\ (\A k \in 1..Len(calls) : ~ReturnedBlock(calls[k])) =>
               Len(calls) = Len(hooks))

\* While a tools-filter invocation was awaiting a handler the caller
\* removed the second handler from its array and appended one of higher
\* priority; the invocation called the two handlers it started with and
\* returned without calling the new one.
C37_Witness ==
  /\ fn = TOOLS_FILTER
  /\ pc = "done"
  /\ Len(constructed) = 2
  /\ registrations = <<constructed[1], [hookName |-> TOOLS_FILTER, priority |-> 1]>>
  /\ Len(calls) = 2
  /\ calls[1].h = 1
  /\ calls[2].h = 2
  /\ calls[2].out.kind = "fulfil"

\* A step taken while a set is cached: only resetFlags() and
\* setConfigFlags() change the cache, and they empty it; a change of the
\* environment leaves it; and a flag() call answers from it.
CacheAnswers ==
  activeFlags.t = "set" =>
    /\ activeFlags' # activeFlags =>
         activeFlags'.t = "null" /\ flagCall'.op \in {"resetFlags", "setConfigFlags"}
    /\ env' # env => activeFlags' = activeFlags /\ flagCall' = flagCall
    /\ activeFlags' = activeFlags /\ flagCall' # flagCall /\ flagCall'.op = "flag" =>
         /\ flagCall'.kind = "return"
         /\ flagCall'.val = activeFlags.v \cap {flagCall'.arg}

\* C38: once a set is cached, flag() answers from it until resetFlags() or
\* setConfigFlags() is called: changes of SUPERPACK_FLAGS and
\* SUPERPACK_PRESET do not touch the cache, so between two invalidations
\* the answer for a name stays the same.
C38_CachedBetweenInvalidations ==
  /\ [][CacheAnswers]_vars
  /\ [](activeFlags.t = "set" /\ flagCall.op = "flag" =>
          /\ flagCall.kind = "return"
          /\ flagCall.val = activeFlags.v \cap {flagCall.arg})

\* flag("dump_system_prompt") has answered false from the cached set
\* although SUPERPACK_FLAGS now names that flag.
C38_Witness ==
  /\ activeFlags.t = "set"
  /\ flagCall.op = "flag"
  /\ flagCall.arg = "dump_system_prompt"
  /\ flagCall.kind = "return"
  /\ flagCall.val = {}
  /\ "dump_system_prompt" \in EnvEntries

\* C39: with no config flags and nothing cached, superpackFlag(name) returns
\* for every flag name what flag(name) returns, whatever SUPERPACK_FLAGS and
\* SUPERPACK_PRESET hold: flag(name) returns, and the name is in the
\* resolved set exactly when the overlay answered true.
C39_InlineFlagAgrees ==
  flagCall.op = "superpackFlag" /\ configFlags = <<>> /\ configPreset = Undefined =>
    /\ resolve(configPreset, configFlags, env).kind = "return"
    /\ flagCall.val = resolve(configPreset, configFlags, env).val \cap {flagCall.arg}

====
